---- MODULE Spec2Model ----
(***************************************************************************)
(* PPG heart-rate pipeline of pulse-detector-mobile:                       *)
(*   src/utils/heartRateDetection.ts   filter, estimator, quality, median  *)
(*   src/components/HeartRateMonitor.tsx   the measurement session         *)
(*                                                                         *)
(* Numbers.  JavaScript doubles are modelled in fixed point:               *)
(*   - raw brightness (avgRed) is an integer 0..255;                       *)
(*   - filter history and window samples are in tenths of a brightness     *)
(*     unit (FP per unit), filter coefficients in 1/COEF;                  *)
(*   - BPM values are in thousandths of a BPM (BPM_FP per BPM).            *)
(* Division truncates (floor) where the code divides doubles.              *)
(***************************************************************************)
EXTENDS Integers, Sequences, FiniteSets, Bags, TLC

\* ------------------------------------------------------------------------
\* Program constants
\* ------------------------------------------------------------------------
SAMPLING_RATE == 30
WINDOW_SIZE == 180
FINGER_DETECTED_THRESHOLD == 80
FINGER_LOST_THRESHOLD == 40
MIN_VALID_BPM == 30
MAX_VALID_BPM == 200
\* MIN_QUALITY_SCORE = 0.5, kept as a fraction MIN_QUALITY_NUM / MIN_QUALITY_DEN
MIN_QUALITY_NUM == 1
MIN_QUALITY_DEN == 2
\* "change > 10" and "slice(0, -5)" of the motion check, "length > 5" its guard
MOTION_THRESHOLD == 10
MOTION_DISCARD == 5
MOTION_MIN_LENGTH == 5
\* "now - lastProcessTimeRef.current > 500"
EVAL_INTERVAL_MS == 500
\* "validReadingsRef.current.length >= 12" and "slice(-7)"
MIN_READINGS == 12
SMOOTH_LAST == 7
\* estimator: lag limits "40 BPM to 220 BPM", confidence 0.2 = 1/5,
\* harmonic factor 0.6 = 3/5
LAG_MAX_BPM == 220
LAG_MIN_BPM == 40
CONF_DEN == 5
HARMONIC_NUM == 3
HARMONIC_DEN == 5
\* calculateCoefficients(30, 0.5, 5.0): b = [B0, 0, -B0], a = [1, A1, A2],
\* in units of 1/COEF
COEF == 10000
B0 == 3375
A1 == 0 - 12471
A2 == 3249

\* ------------------------------------------------------------------------
\* Fixed-point scales and model bounds
\* ------------------------------------------------------------------------
FP == 10
BPM_FP == 1000
\* largest |term| a fast sum may hold (see Sum)
SumOffset == 10000000

\* ------------------------------------------------------------------------
\* Arithmetic helpers
\* ------------------------------------------------------------------------
Abs(x) == IF x < 0 THEN 0 - x ELSE x
Min(a, b) == IF a < b THEN a ELSE b
Max(a, b) == IF a > b THEN a ELSE b

\* values.reduce((a, b) => a + b, 0) for terms F(1..m), |F(i)| < SumOffset
Sum(F(_), m) ==
  BagCardinality([i \in 1..m |-> F(i) + SumOffset]) - m * SumOffset

\* the same for terms of any size
RECURSIVE SumRange(_, _, _)
SumRange(F(_), a, b) ==
  IF a > b THEN 0
  ELSE IF a = b THEN F(a)
  ELSE LET m == (a + b) \div 2 IN SumRange(F, a, m) + SumRange(F, m + 1, b)

\* Math.round for a non-negative fraction num/den (half rounds up)
RoundDown(num, den) == num \div den
RoundDiv(num, den) == (2 * num + den) \div (2 * den)

\* Math.sqrt on integers: the floor of the square root
RECURSIVE SqrtSearch(_, _, _)
SqrtSearch(v, lo, hi) ==
  IF lo >= hi THEN lo
  ELSE LET mid == (lo + hi + 1) \div 2
       IN IF mid * mid <= v THEN SqrtSearch(v, mid, hi)
                            ELSE SqrtSearch(v, lo, mid - 1)
Sqrt(v) == SqrtSearch(v, 0, Min(v, 46340))

\* ------------------------------------------------------------------------
\* ButterworthFilter (heartRateDetection.ts 1-67)
\* ------------------------------------------------------------------------
\* the history a constructed or reset filter holds: x = y = [0, 0, 0]
FilterZero == [x |-> <<0, 0, 0>>, y |-> <<0, 0, 0>>]

\* variant: a reset that leaves the history as it is
FilterResetKeeps(f) == f

\* variant: a reset that clears the inputs and keeps the outputs
FilterResetInputs(f) == [x |-> <<0, 0, 0>>, y |-> f.y]

\* reset(): this.x = [0,0,0]; this.y = [0,0,0]
FilterReset(f) == FilterZero

\* process(input): shift both histories, store the input, evaluate the
\* difference equation; input is a raw brightness, the history is in 1/FP
FilterProcess(f, input) ==
  LET x0 == input * FP
      x1 == f.x[1]
      x2 == f.x[2]
      y1 == f.y[1]
      y2 == f.y[2]
      y0 == (B0 * x0 + 0 * x1 + (0 - B0) * x2 - A1 * y1 - A2 * y2) \div COEF
  IN [x |-> <<x0, x1, x2>>, y |-> <<y0, y1, y2>>]

\* the value process() returns: this.y[0]
FilterOutput(f) == f.y[1]

\* calculateCoefficients(fs, 0.5, 5.0): b[0], a[1] and a[2] in 1/COEF for
\* the sampling rates of FilterRates; for fs = 0 Math.tan(Math.PI * f / fs)
\* is NaN and so is every coefficient
FilterRates == {0 - SAMPLING_RATE, 0, SAMPLING_RATE}
calculateCoefficients(fs) ==
  IF fs = 0 THEN [finite |-> FALSE, b0 |-> 0, a1 |-> 0, a2 |-> 0]
  ELSE IF fs = SAMPLING_RATE
  THEN [finite |-> TRUE, b0 |-> B0, a1 |-> A1, a2 |-> A2]
  ELSE [finite |-> TRUE, b0 |-> 0 - 10388, a1 |-> 0 - 38382, a2 |-> 30777]

\* new ButterworthFilter(fs): the constructor computes the coefficients and
\* zeroes the histories; it has no statement that throws
ButterworthFilter(fs) ==
  [thrown |-> FALSE, fs |-> fs, coef |-> calculateCoefficients(fs),
   x |-> <<0, 0, 0>>, y |-> <<0, 0, 0>>, finite |-> TRUE]

\* process(input) on a constructed filter: the difference equation with the
\* filter's own coefficients; with NaN coefficients the output is NaN
ProcessConstructed(f, input) ==
  LET x0 == input * FP
      y0 == (f.coef.b0 * x0 - f.coef.b0 * f.x[2] - f.coef.a1 * f.y[1]
               - f.coef.a2 * f.y[2]) \div COEF
  IN IF f.coef.finite /\ f.finite
     THEN [f EXCEPT !.x = <<x0, f.x[1], f.x[2]>>, !.y = <<y0, f.y[1], f.y[2]>>]
     ELSE [f EXCEPT !.x = <<x0, f.x[1], f.x[2]>>, !.finite = FALSE]

\* ------------------------------------------------------------------------
\* median / weightedMedian (heartRateDetection.ts 214-235)
\* ------------------------------------------------------------------------
\* [...values].sort((a, b) => a - b): insertion into an ascending sequence
RECURSIVE Insert(_, _)
Insert(sorted, v) ==
  IF sorted = <<>> THEN <<v>>
  ELSE IF v < Head(sorted) THEN <<v>> \o sorted
  ELSE <<Head(sorted)>> \o Insert(Tail(sorted), v)

RECURSIVE SortAsc(_)
SortAsc(values) ==
  IF values = <<>> THEN <<>>
  ELSE Insert(SortAsc(Tail(values)), Head(values))

\* median(values); sorted[mid] is 0-based in the code, 1-based here
median(values) ==
  IF Len(values) = 0 THEN 0
  ELSE LET sorted == SortAsc(values)
           mid == Len(sorted) \div 2
       IN IF Len(sorted) % 2 # 0
          THEN sorted[mid + 1]
          ELSE (sorted[mid] + sorted[mid + 1]) \div 2

\* the inner loop of weightedMedian: `weight` copies of v
RECURSIVE Replicate(_, _)
Replicate(v, weight) ==
  IF weight = 0 THEN <<>> ELSE <<v>> \o Replicate(v, weight - 1)

\* variant: every value pushed once, whatever its position
RECURSIVE WeightedUniform(_, _)
WeightedUniform(values, i) ==
  IF i > Len(values) THEN <<>>
  ELSE Replicate(values[i], 1) \o WeightedUniform(values, i + 1)

\* the outer loop of weightedMedian: values[i] (0-based) pushed i + 1 times
RECURSIVE Weighted(_, _)
Weighted(values, i) ==
  IF i > Len(values) THEN <<>>
  ELSE Replicate(values[i], (i - 1) + 1) \o Weighted(values, i + 1)

weightedMedian(values) ==
  IF Len(values) = 0 THEN 0
  ELSE median(Weighted(values, 1))

\* ------------------------------------------------------------------------
\* estimateHeartRateAutocorrelation (heartRateDetection.ts 88-150)
\* ------------------------------------------------------------------------
\* minLag = floor(fs * (60 / 220)), maxLag = floor(fs * (60 / 40))
MinLagOne(fs) == 1
MinLag(fs) == (fs * 60) \div LAG_MAX_BPM
MaxLag(fs) == (fs * 60) \div LAG_MIN_BPM

\* signal.map(x => x - mean), mean = sum / n
Centered(signal) ==
  LET n == Len(signal)
      mean == Sum(LAMBDA i : signal[i], n) \div n
  IN [i \in 1..n |-> signal[i] - mean]

\* the inner loop: sum of centered[i] * centered[i + lag], 0 <= i < n - lag
LagSum(centered, lag) ==
  Sum(LAMBDA i : centered[i] * centered[i + lag], Max(Len(centered) - lag, 0))

\* the lag loop: the first lag of the range whose correlation is largest;
\* "correlation > maxCorr" starts from maxCorr = -1, i.e. sum > -variance
BestLagOf(sums, variance, minLag, maxLag) ==
  IF minLag > maxLag \/ \A l \in minLag..maxLag : sums[l] <= 0 - variance
  THEN 0
  ELSE CHOOSE l \in minLag..maxLag :
         \A l2 \in minLag..maxLag :
           sums[l] > sums[l2] \/ (sums[l] = sums[l2] /\ l <= l2)

\* 60 / (bestLag / fs), in 1/BPM_FP
LagToBPM(lag, fs) == (60 * fs * BPM_FP) \div lag

estimateHeartRateAutocorrelation(signal, fs) ==
  IF Len(signal) = 0 THEN 0
  ELSE
  LET centered == Centered(signal) @@ <<>>
      variance == LagSum(centered, 0)
      minLag == MinLag(fs)
      maxLag == MaxLag(fs)
      sums == [lag \in minLag..maxLag |-> LagSum(centered, lag)] @@ <<>>
      bestLag == BestLagOf(sums, variance, minLag, maxLag)
      maxSum == sums[bestLag]
      halfLag == RoundDiv(bestLag, 2)
      sumHalf == LagSum(centered, halfLag)
      finalLag == IF halfLag >= minLag /\ sumHalf * HARMONIC_DEN > maxSum * HARMONIC_NUM
                  THEN halfLag
                  ELSE bestLag
  IN IF variance = 0 THEN 0
     ELSE IF bestLag = 0 THEN 0
     ELSE IF maxSum * CONF_DEN < variance THEN 0
     ELSE LagToBPM(finalLag, fs)

\* ------------------------------------------------------------------------
\* assessSignalQuality (heartRateDetection.ts 173-212)
\* ------------------------------------------------------------------------
\* variant: the first value instead of the largest
MaxOfFirst(data, a, b) == data[a]

RECURSIVE MaxOf(_, _, _)
MaxOf(data, a, b) ==
  IF a = b THEN data[a]
  ELSE LET m == (a + b) \div 2 IN Max(MaxOf(data, a, m), MaxOf(data, m + 1, b))

RECURSIVE MinOf(_, _, _)
MinOf(data, a, b) ==
  IF a = b THEN data[a]
  ELSE LET m == (a + b) \div 2 IN Min(MinOf(data, a, m), MinOf(data, m + 1, b))

assessSignalQuality(data) ==
  LET n == Len(data)
      mean == Sum(LAMBDA i : data[i], n) \div n
      diff == [i \in 1..n |-> data[i] - mean] @@ <<>>
      sumSquares == Sum(LAMBDA i : diff[i] * diff[i], n)
      maxVal == MaxOf(data, 1, n)
      minVal == MinOf(data, 1, n)
      acComponent == Sqrt(sumSquares \div n)
      dcComponent == Abs(mean)
      \* snr = ac / dc; snr > 0.001 && snr < 1.0
      snrScore == IF dcComponent > 0 /\ 1000 * acComponent > dcComponent
                     /\ acComponent < dcComponent
                  THEN 1 ELSE 0
      m3 == SumRange(LAMBDA i : diff[i] * diff[i] * diff[i], 1, n)
      stdDev == Sqrt(sumSquares \div n)
      \* |skewness| > 0.2, skewness = m3 / n / stdDev^3
      skewnessScore == IF stdDev > 0 /\ 5 * (Abs(m3) \div n) > stdDev * stdDev * stdDev
                       THEN 1 ELSE 0
      peakToPeak == maxVal - minVal
      ppScore == IF peakToPeak > 1 * FP THEN 1 ELSE 0
      totalScore == snrScore + skewnessScore + ppScore
  IN IF n < 10 THEN 0
     ELSE IF totalScore >= 1 THEN 1 ELSE 0

\* ------------------------------------------------------------------------
\* Secondary metrics (heartRateDetection.ts 258-494)
\* ------------------------------------------------------------------------
\* the metrics are kept in 1/MILLI of their unit
MILLI == 1000

\* a finite number; and what a division by zero or the logarithm of zero
\* leaves instead of one: NaN, Infinity or -Infinity
Num(v) == [finite |-> TRUE, v |-> v]
NonNumber == [finite |-> FALSE, v |-> 0]

\* variant: twice the quotient
QuotDoubled(a, b) == IF b = 0 THEN NonNumber ELSE Num((2 * a) \div b)

\* a / b where the code does not round: the quotient, rounded down here
Quot(a, b) == IF b = 0 THEN NonNumber ELSE Num(a \div b)

\* (arr[j] || v): the neighbour, or v where there is none or it is 0
Neighbour(arr, j, v) ==
  IF j >= 1 /\ j <= Len(arr) /\ arr[j] # 0 THEN arr[j] ELSE v

\* lines 264-266, the 3-point moving average; kept as the sum of the three
\* values, the comparisons below do not depend on the factor 3
Smooth(signal) ==
  [i \in 1..Len(signal) |->
     signal[i] + Neighbour(signal, i - 1, signal[i])
               + Neighbour(signal, i + 1, signal[i])] @@ <<>>

\* lines 279-298: the loop over i, st = [peaks, last]; positions count
\* from 1 here, the threshold is minVal + (maxVal - minVal) * 0.5
RECURSIVE PeaksFrom(_, _, _, _, _, _)
PeaksFrom(smooth, minVal, maxVal, minDistanceSamples, i, st) ==
  IF i > Len(smooth) - 1 THEN st.peaks
  ELSE LET localMax == smooth[i] > smooth[i - 1] /\ smooth[i] > smooth[i + 1]
           aboveThreshold == 2 * smooth[i] > minVal + maxVal
           next ==
             IF ~(localMax /\ aboveThreshold) THEN st
             ELSE IF i - st.last > minDistanceSamples
             THEN [peaks |-> Append(st.peaks, i), last |-> i]
             ELSE IF smooth[i] > smooth[st.last]
             THEN [peaks |-> Append(SubSeq(st.peaks, 1, Len(st.peaks) - 1), i),
                   last |-> i]
             ELSE st
       IN PeaksFrom(smooth, minVal, maxVal, minDistanceSamples, i + 1, next)

\* variant: every interval is kept
RECURSIVE IntervalsUnchecked(_, _, _)
IntervalsUnchecked(peaks, fs, i) ==
  IF i > Len(peaks) \/ fs <= 0 THEN <<>>
  ELSE <<((peaks[i] - peaks[i - 1]) * 1000) \div fs>>
         \o IntervalsUnchecked(peaks, fs, i + 1)

\* lines 302-311: the intervals in ms that lie within 300..2000 ms; with
\* fs = 0 the interval is Infinity and is not kept
RECURSIVE Intervals(_, _, _)
Intervals(peaks, fs, i) ==
  IF i > Len(peaks) THEN <<>>
  ELSE LET distance == peaks[i] - peaks[i - 1]
           kept == /\ fs > 0
                   /\ distance * 1000 > 300 * fs
                   /\ distance * 1000 < 2000 * fs
       IN (IF kept THEN <<(distance * 1000) \div fs>> ELSE <<>>)
            \o Intervals(peaks, fs, i + 1)

\* calculateIBI(signal, fs): the intervals between the beats, in ms
calculateIBI(signal, fs) ==
  LET smooth == Smooth(signal)
      n == Len(smooth)
      minDistanceSamples == fs \div 4
      peaks == IF n < 3 THEN <<>>
               ELSE PeaksFrom(smooth, MinOf(smooth, 1, n), MaxOf(smooth, 1, n),
                              minDistanceSamples, 2,
                              [peaks |-> <<>>, last |-> 1 - minDistanceSamples])
  IN Intervals(peaks, fs, 2)

\* variant: the 20% away are kept too
NearMedianInclusive(t, medianIBI) == 5 * Abs(t - medianIBI) <= medianIBI

\* |t - medianIBI| < 0.2 * medianIBI
NearMedian(t, medianIBI) == 5 * Abs(t - medianIBI) < medianIBI

\* calculateHRV(ibis): sdnn and rmssd in 1/FP ms, pnn50 in 1/FP percent,
\* lfHfRatio in 1/MILLI
calculateHRV(ibis) ==
  LET medianIBI == median(ibis)
      validIBIs == SelectSeq(ibis, LAMBDA t : NearMedian(t, medianIBI))
      n == Len(validIBIs)
      total == SumRange(LAMBDA i : validIBIs[i], 1, n)
      squares == SumRange(LAMBDA i : validIBIs[i] * validIBIs[i], 1, n)
      \* sum of (b - mean)^2, times n
      spreadN == n * squares - total * total
      sdnn == Sqrt((spreadN * FP * FP) \div (n * (n - 1)))
      sumSqDiff == SumRange(LAMBDA i : (validIBIs[i + 1] - validIBIs[i])
                                        * (validIBIs[i + 1] - validIBIs[i]),
                            1, n - 1)
      nn50Count == Cardinality({i \in 1..(n - 1) :
                                  Abs(validIBIs[i + 1] - validIBIs[i]) > 50})
      rmssd == Sqrt((sumSqDiff * FP * FP) \div (n - 1))
      pnn50 == (nn50Count * 100 * FP) \div (n - 1)
      lfHfRatio == IF rmssd > 0 THEN Quot(sdnn * MILLI, rmssd) ELSE Num(0)
  IN IF n < 5
     THEN [sdnn |-> Num(0), rmssd |-> Num(0), pnn50 |-> Num(0),
           lfHfRatio |-> Num(0)]
     ELSE [sdnn |-> Num(sdnn), rmssd |-> Num(rmssd), pnn50 |-> Num(pnn50),
           lfHfRatio |-> lfHfRatio]

\* lines 382-392: the local maxima of the signal; i is the position of the
\* sample looked at
RECURSIVE PeakValuesFrom(_, _, _, _)
PeakValuesFrom(signal, i, lastVal, direction) ==
  IF i > Len(signal) THEN <<>>
  ELSE IF signal[i] > lastVal
  THEN PeakValuesFrom(signal, i + 1, signal[i], 1)
  ELSE IF signal[i] < lastVal /\ direction = 1
  THEN <<lastVal>> \o PeakValuesFrom(signal, i + 1, signal[i], -1)
  ELSE PeakValuesFrom(signal, i + 1, signal[i], direction)

\* estimateRespirationRate(signal, fs), in 1/MILLI breaths per minute (its
\* call of calculateIBI has no effect); envNorm is kept times the number of
\* peaks, rr = (zeroCrossings / 2) / (signal.length / fs / 60)
estimateRespirationRate(signal, fs) ==
  LET peakValues == IF Len(signal) = 0 THEN <<>>
                    ELSE PeakValuesFrom(signal, 2, signal[1], 0)
      m == Len(peakValues)
      envTotal == SumRange(LAMBDA i : peakValues[i], 1, m)
      envNorm == [i \in 1..m |-> peakValues[i] * m - envTotal] @@ <<>>
      zeroCrossings ==
        Cardinality({i \in 2..m : \/ envNorm[i - 1] > 0 /\ envNorm[i] <= 0
                                  \/ envNorm[i - 1] < 0 /\ envNorm[i] >= 0})
      perMinute == zeroCrossings * fs * 60
      twice == 2 * Len(signal)
  IN IF m < 4 THEN Num(0)
     ELSE IF perMinute >= 6 * twice /\ perMinute <= 40 * twice
     THEN Quot(perMinute * MILLI, twice)
     ELSE Num(0)

\* calculatePerfusionIndex(signal), in 1/MILLI percent:
\* ((max - min) / 2) / mean * 100
calculatePerfusionIndex(signal) ==
  LET n == Len(signal)
      total == SumRange(LAMBDA i : signal[i], 1, n)
      acTwice == MaxOf(signal, 1, n) - MinOf(signal, 1, n)
  IN IF n = 0 THEN Num(0)
     ELSE IF total > 0 THEN Quot(acTwice * n * 50 * MILLI, total)
     ELSE Num(0)

\* 10^(k/10) for k = 1..9, in 1/1000
DecibelSteps == <<1259, 1585, 1995, 2512, 3162, 3981, 5012, 6310, 7943>>

\* floor(10 * log10(num / den)) for num >= den > 0
RECURSIVE DecibelsUp(_, _)
DecibelsUp(num, den) ==
  IF num >= 10 * den THEN 10 + DecibelsUp(num, 10 * den)
  ELSE Cardinality({k \in 1..9 : DecibelSteps[k] * den <= num * 1000})

\* num / den is a power of ten
RECURSIVE WholeDecades(_, _)
WholeDecades(num, den) ==
  \/ num = den
  \/ num >= 10 * den /\ WholeDecades(num, 10 * den)

\* 10 * Math.log10(num / den) in whole decibels, rounded down
Decibels(num, den) ==
  IF den = 0 \/ num = 0 THEN NonNumber
  ELSE IF num >= den THEN Num(DecibelsUp(num, den))
  ELSE IF WholeDecades(den, num) THEN Num(0 - DecibelsUp(den, num))
  ELSE Num(0 - (DecibelsUp(den, num) + 1))

\* n * n * (the mean of (signal[i] - mean)^2)
SpreadOf(signal) ==
  LET n == Len(signal)
      total == SumRange(LAMBDA i : signal[i], 1, n)
      squares == SumRange(LAMBDA i : signal[i] * signal[i], 1, n)
  IN n * squares - total * total

\* variant: the noise power is not looked at
NoiseUnchecked(noisePower) == TRUE

\* line 464: noisePower > 0
NoisePositive(noisePower) == noisePower > 0

\* calculateSNR(signal), in whole decibels; signalPower / noisePower is
\* (spread / n^2) / (noise / (n - 1))
calculateSNR(signal) ==
  LET n == Len(signal)
      noise == SumRange(LAMBDA i : (signal[i + 1] - signal[i])
                                    * (signal[i + 1] - signal[i]), 1, n - 1)
  IN IF n < 2 THEN Num(0)
     ELSE IF NoisePositive(noise)
     THEN Decibels(SpreadOf(signal) * (n - 1), n * n * noise)
     ELSE Num(0)

\* Math.min(Math.max(x, 0), 1) in 1/MILLI
Clamp(x) == Min(Max(x, 0), MILLI)

\* calculateSQI(signal), in 1/MILLI of the 0-100 scale; cv^2 is
\* spread / total^2 (a score that is no finite number leaves none)
calculateSQI(signal) ==
  LET n == Len(signal)
      snr == calculateSNR(signal)
      pi == calculatePerfusionIndex(signal)
      snrScore == Clamp(((snr.v - 5) * MILLI) \div 25)
      piScore == Clamp(pi.v \div 20)
      total == SumRange(LAMBDA i : signal[i], 1, n)
      spread == SpreadOf(signal)
      stabilityScore ==
        IF total > 0 /\ spread * 10000 > total * total
                     /\ spread * 100 < 9 * total * total
        THEN MILLI ELSE 0
  IN IF n < 10 THEN Num(0)
     ELSE IF ~snr.finite \/ ~pi.finite THEN NonNumber
     ELSE Quot((snrScore + piScore + stabilityScore) * 100, 3)

\* ------------------------------------------------------------------------
\* refinePeak (heartRateDetection.ts 69-86): the vertex of the parabola through
\* the three values around peakIndex of a zero-based array, in 1/MILLI of an
\* index. No function of the module calls it.
\* ------------------------------------------------------------------------
refinePeak(correlations, peakIndex) ==
  IF peakIndex <= 0 \/ peakIndex >= Cardinality(DOMAIN correlations) - 1
  THEN peakIndex * MILLI
  ELSE LET y1 == correlations[peakIndex - 1]
           y2 == correlations[peakIndex]
           y3 == correlations[peakIndex + 1]
           denominator == y1 - 2 * y2 + y3
       IN IF denominator = 0 THEN peakIndex * MILLI
          ELSE IF denominator > 0
          THEN peakIndex * MILLI + (MILLI * (y1 - y3)) \div (2 * denominator)
          ELSE peakIndex * MILLI + (MILLI * (y3 - y1)) \div (0 - 2 * denominator)

\* ------------------------------------------------------------------------
\* Model bounds: the environment of one HeartRateMonitor component
\* ------------------------------------------------------------------------
\* runOnJS calls that may be pending between the worklet and the JS thread
MaxInFlight == 2
\* Start commands per run, and times the finger leaves the lens per run
MaxSessions == 2
MaxLifts == 1
\* the finger may leave after each of the first LiftUpTo accepted estimates
LiftUpTo == 1
\* while the window fills, the user cancels at every CancelEvery-th length
CancelEvery == 60
\* brightness of an uncovered lens and mean brightness of a covered one
AmbientRed == 20
FingerRed == 150

\* the pulsatile part of the brightness under a finger, frame by frame:
\* "pulse" beats every 10 frames (180 BPM), "fast" every 8 frames (225 BPM),
\* "faint" beats every 12 frames (150 BPM) with a swing of one brightness
\* step, too little for the quality assessment once the filter has settled
Signals ==
  [pulse |-> <<0, 7, 11, 11, 7, 0, -7, -11, -11, -7>>,
   fast  |-> <<0, 8, 11, 8, 0, -8, -11, -8>>,
   faint |-> <<1, 0, 0, 0, 0, 1, 1, 1, 1, 1, 1, 1>>]
SignalNames == {"pulse", "fast", "faint"}

\* ------------------------------------------------------------------------
\* State
\* ------------------------------------------------------------------------
VARIABLES
  isMonitoring,      \* useState(false)
  currentBPM,        \* useState(null): <<>> is null, <<bpm>> a value
  progress,          \* useState(0), in 1/WINDOW_SIZE
  fingerDetected,    \* useState(false)
  isSaving,          \* useState(false)
  advancedMetrics,   \* useState(null): "null" or "snapshot"
  filter,            \* filterRef
  dataBuffer,        \* dataBufferRef
  detectionPhase,    \* detectionPhaseRef: "waiting" | "measuring"
  validReadings,     \* validReadingsRef
  sinceProcess,      \* Date.now() - lastProcessTimeRef, capped above 500
  queue,             \* avgRed values handed to runOnJsHandler, not yet run
  measurements,      \* the BPM values addMeasurement was called with
  pendingSaves,      \* addMeasurement calls that have not resolved yet
  finger,            \* world: "off" | "on"
  signal,            \* world: the name of the signal the finger presents
  wavePos,           \* world: position in the signal of the next frame; the
                     \* signal is counted from the placing of the finger or
                     \* the start of the camera session
  sessions,          \* observer: Start commands so far
  lifts,             \* observer: finger lifts so far
  finalizeCalls,     \* observer: finalizeMeasurement calls since the last Start
  pushRun,           \* observer: accepted pushes in a row, capped at WINDOW_SIZE
  recentRaw,         \* observer: the raw samples processed since the last Start (last 5)
  last,              \* observer: what the latest step did
  fnArg,             \* pure-function specifications: the input drawn by Init
  fnRes              \* pure-function specifications: <<>> or <<result>>

progVars == <<isMonitoring, currentBPM, progress, fingerDetected, isSaving,
              advancedMetrics, filter, dataBuffer, detectionPhase,
              validReadings, sinceProcess, queue, measurements, pendingSaves>>
worldVars == <<finger, signal, wavePos>>
obsVars == <<sessions, lifts, finalizeCalls, pushRun, recentRaw, last>>
fnVars == <<fnArg, fnRes>>
vars == <<progVars, worldVars, obsVars, fnVars>>

\* 1000 / SAMPLING_RATE: the time between two frames, in ms
FrameMs == 1000 \div SAMPLING_RATE
\* every value above EVAL_INTERVAL_MS is kept as this one
SinceCap == EVAL_INTERVAL_MS + 1

\* the component right after its first render (HeartRateMonitor.tsx 78-107);
\* lastProcessTimeRef = 0 lies far in the past of any Date.now()
ProgInit ==
  /\ isMonitoring = FALSE
  /\ currentBPM = <<>>
  /\ progress = 0
  /\ fingerDetected = FALSE
  /\ isSaving = FALSE
  /\ advancedMetrics = "null"
  /\ filter = FilterZero
  /\ dataBuffer = <<>>
  /\ detectionPhase = "waiting"
  /\ validReadings = <<>>
  /\ sinceProcess = SinceCap
  /\ queue = <<>>
  /\ measurements = <<>>
  /\ pendingSaves = 0

\* the world and the observers before anything happened
QuietInit ==
  /\ finger = "off"
  /\ signal = "pulse"
  /\ wavePos = 1
  /\ sessions = 0
  /\ lifts = 0
  /\ finalizeCalls = 0
  /\ pushRun = 0
  /\ recentRaw = <<>>
  /\ last = [op |-> "init", avgRed |-> 0, outcome |-> "none", quality |-> 0,
             estimate |-> 0, bpm |-> 0, skipped |-> FALSE,
             oldSamples |-> 0, oldReadings |-> 0]

Init ==
  /\ ProgInit
  /\ QuietInit
  /\ fnArg = <<>>
  /\ fnRes = <<>>

\* ------------------------------------------------------------------------
\* Observers
\* ------------------------------------------------------------------------
\* what a step did; every field is present in every note. Three fields are
\* carried from note to note: "skipped", an evaluation since the last
\* detection (or Start) found its estimate implausible; "oldSamples" and
\* "oldReadings", how many entries of the window and of the estimate history
\* were pushed before the last detection (or Start)
Note(op) ==
  [op |-> op, avgRed |-> 0, outcome |-> "none", quality |-> 0,
   estimate |-> 0, bpm |-> 0, skipped |-> last.skipped,
   oldSamples |-> last.oldSamples, oldReadings |-> last.oldReadings]

\* the old entries of a window after a push: the shift drops the oldest
OldAfterPush ==
  IF Len(dataBuffer) = WINDOW_SIZE THEN Max(last.oldSamples - 1, 0)
  ELSE last.oldSamples

\* the last 5 raw samples handed to processFrameData
Recent(avgRed) ==
  LET r == Append(recentRaw, avgRed)
  IN IF Len(r) > 5 THEN Tail(r) ELSE r

\* ------------------------------------------------------------------------
\* World: the finger and the camera
\* ------------------------------------------------------------------------
\* the user covers the lens while the session waits for the finger; the
\* finger presents one of the signals, and a finger that comes back presents
\* the signal it presented before (a finger that left stays away until the
\* session has seen an uncovered frame)
PlaceFinger ==
  /\ finger = "off"
  /\ isMonitoring
  /\ ~fingerDetected
  /\ finger' = "on"
  /\ \E s \in SignalNames : signal' = s /\ (lifts > 0 => s = signal)
  /\ wavePos' = 1
  /\ UNCHANGED <<progVars, sessions, lifts, finalizeCalls, pushRun, recentRaw, last, fnVars>>

\* the user takes the finger off the lens
\* (the finger leaves right after the session detected it, rejected a
\* frame or accepted one of its first LiftUpTo estimates)
LiftFinger ==
  /\ finger = "on"
  /\ lifts < MaxLifts
  /\ \/ last.op \in {"detected", "rejected"}
     \/ /\ last.op = "evaluated"
        /\ last.outcome = "accepted"
        /\ Len(validReadings) <= LiftUpTo
  /\ finger' = "off"
  /\ lifts' = lifts + 1
  /\ UNCHANGED <<progVars, signal, wavePos, sessions, finalizeCalls, pushRun, recentRaw, last, fnVars>>

\* the average red of the frame the camera delivers now
FrameRed ==
  IF finger = "on" THEN FingerRed + Signals[signal][wavePos] ELSE AmbientRed

\* frameProcessor (HeartRateMonitor.tsx 305-332): the worklet skips the frame
\* unless isMonitoring, else hands avgRed to runOnJsHandler (the camera
\* gets ahead of the JS thread only while that thread measures on a full
\* window, where the evaluations keep it busy)
frameProcessor ==
  /\ isMonitoring
  /\ Len(queue) < MaxInFlight
  /\ queue # <<>> => (detectionPhase = "measuring" /\ Len(dataBuffer) = WINDOW_SIZE)
  /\ queue' = Append(queue, FrameRed)
  /\ wavePos' = IF finger = "on" THEN (wavePos % Len(Signals[signal])) + 1 ELSE wavePos
  /\ UNCHANGED <<isMonitoring, currentBPM, progress, fingerDetected, isSaving,
                 advancedMetrics, filter, dataBuffer, detectionPhase,
                 validReadings, sinceProcess, measurements, pendingSaves>>
  /\ UNCHANGED <<finger, signal, sessions, lifts, finalizeCalls, pushRun, recentRaw, last, fnVars>>

\* ------------------------------------------------------------------------
\* startMonitoring / stopMonitoring (HeartRateMonitor.tsx 338-365)
\* ------------------------------------------------------------------------
\* the Start button is rendered while !isMonitoring, and only with camera
\* permission, so the permission request of lines 340-343 is not taken; the
\* JS thread runs the pending runOnJS calls before a later button press
startMonitoring ==
  /\ ~isMonitoring
  /\ sessions < MaxSessions
  /\ queue = <<>>
  /\ filter' = FilterReset(filter)
  /\ dataBuffer' = <<>>
  /\ validReadings' = <<>>
  /\ currentBPM' = <<>>
  /\ advancedMetrics' = "null"
  /\ fingerDetected' = FALSE
  /\ detectionPhase' = "waiting"
  /\ isMonitoring' = TRUE
  /\ sessions' = sessions + 1
  /\ finalizeCalls' = 0
  /\ pushRun' = 0
  /\ recentRaw' = <<>>
  /\ last' = [Note("start") EXCEPT !.skipped = FALSE,
                                   !.oldSamples = Len(dataBuffer'),
                                   !.oldReadings = Len(validReadings')]
  /\ wavePos' = 1
  /\ UNCHANGED <<progress, isSaving, sinceProcess, queue, measurements, pendingSaves>>
  /\ UNCHANGED <<finger, signal, lifts, fnVars>>

\* the four assignments of stopMonitoring
StopMonitoringUpdates ==
  /\ isMonitoring' = FALSE
  /\ fingerDetected' = FALSE
  /\ detectionPhase' = "waiting"
  /\ progress' = 0

\* the Cancel button, rendered while isMonitoring (pressed after any step
\* of the session, and during the plain filling of the window at the
\* lengths CancelEvery allows)
stopMonitoring ==
  /\ isMonitoring
  /\ last.op = "pushed" => Len(dataBuffer) % CancelEvery = 0
  /\ StopMonitoringUpdates
  /\ last' = Note("stop")
  /\ UNCHANGED <<currentBPM, isSaving, advancedMetrics, filter, dataBuffer,
                 validReadings, sinceProcess, queue, measurements, pendingSaves>>
  /\ UNCHANGED <<worldVars, sessions, lifts, finalizeCalls, pushRun, recentRaw, fnVars>>

\* ------------------------------------------------------------------------
\* processFrameData (HeartRateMonitor.tsx 151-297), one action per path
\* ------------------------------------------------------------------------
\* const now = Date.now(): a frame time after the previous call
Elapsed == Min(sinceProcess + FrameMs, SinceCap)

\* what every path shares: the call takes the oldest pending avgRed
FrameTaken(avgRed) ==
  /\ queue # <<>>
  /\ avgRed = Head(queue)
  /\ queue' = Tail(queue)
  /\ recentRaw' = Recent(avgRed)
  /\ UNCHANGED <<worldVars, sessions, lifts, fnVars>>

\* variant: the comparison of line 158 turned around
FingerCoveredBelow(avgRed) == avgRed < FINGER_DETECTED_THRESHOLD

\* line 158: avgRed > FINGER_DETECTED_THRESHOLD
FingerCovered(avgRed) == avgRed > FINGER_DETECTED_THRESHOLD

\* line 179: avgRed < FINGER_LOST_THRESHOLD
FingerLost(avgRed) == avgRed < FINGER_LOST_THRESHOLD

\* variant: the detection leaves the window and the readings as they are
FrameFingerDetectedKeeping(avgRed) ==
  /\ FrameTaken(avgRed)
  /\ detectionPhase = "waiting"
  /\ FingerCovered(avgRed)
  /\ fingerDetected' = TRUE
  /\ detectionPhase' = "measuring"
  /\ filter' = FilterReset(filter)
  /\ progress' = 0
  /\ sinceProcess' = Elapsed
  /\ pushRun' = 0
  /\ last' = [Note("detected") EXCEPT !.avgRed = avgRed, !.skipped = FALSE,
                                      !.oldSamples = Len(dataBuffer),
                                      !.oldReadings = Len(validReadings)]
  /\ UNCHANGED <<isMonitoring, currentBPM, isSaving, advancedMetrics,
                 dataBuffer, validReadings, measurements, pendingSaves,
                 finalizeCalls>>

\* lines 156-167: waiting, the finger covers the lens
FrameFingerDetected(avgRed) ==
  /\ FrameTaken(avgRed)
  /\ detectionPhase = "waiting"
  /\ FingerCovered(avgRed)
  /\ fingerDetected' = TRUE
  /\ detectionPhase' = "measuring"
  /\ dataBuffer' = <<>>
  /\ validReadings' = <<>>
  /\ filter' = FilterReset(filter)
  /\ progress' = 0
  /\ sinceProcess' = Elapsed
  /\ pushRun' = 0
  /\ last' = [Note("detected") EXCEPT !.avgRed = avgRed, !.skipped = FALSE,
                                      !.oldSamples = Len(dataBuffer'),
                                      !.oldReadings = Len(validReadings')]
  /\ UNCHANGED <<isMonitoring, currentBPM, isSaving, advancedMetrics,
                 measurements, pendingSaves, finalizeCalls>>

\* lines 168-172: waiting, no finger yet
FrameNoFinger(avgRed) ==
  /\ FrameTaken(avgRed)
  /\ detectionPhase = "waiting"
  /\ ~FingerCovered(avgRed)
  /\ fingerDetected' = FALSE
  /\ sinceProcess' = Elapsed
  /\ last' = [Note("nofinger") EXCEPT !.avgRed = avgRed]
  /\ UNCHANGED <<isMonitoring, currentBPM, progress, isSaving, advancedMetrics,
                 filter, dataBuffer, detectionPhase, validReadings,
                 measurements, pendingSaves, finalizeCalls, pushRun>>

\* variant: the loss of contact also empties the window and the readings
FrameFingerLostClearing(avgRed) ==
  /\ FrameTaken(avgRed)
  /\ detectionPhase = "measuring"
  /\ FingerLost(avgRed)
  /\ fingerDetected' = FALSE
  /\ detectionPhase' = "waiting"
  /\ progress' = 0
  /\ dataBuffer' = <<>>
  /\ validReadings' = <<>>
  /\ sinceProcess' = Elapsed
  /\ last' = [Note("lost") EXCEPT !.avgRed = avgRed]
  /\ UNCHANGED <<isMonitoring, currentBPM, isSaving, advancedMetrics, filter,
                 measurements, pendingSaves, finalizeCalls, pushRun>>

\* variant: the loss of contact stops the monitoring (stopMonitoring())
FrameFingerLostStops(avgRed) ==
  /\ FrameTaken(avgRed)
  /\ detectionPhase = "measuring"
  /\ FingerLost(avgRed)
  /\ StopMonitoringUpdates
  /\ sinceProcess' = Elapsed
  /\ last' = [Note("lost") EXCEPT !.avgRed = avgRed]
  /\ UNCHANGED <<currentBPM, isSaving, advancedMetrics, filter,
                 dataBuffer, validReadings, measurements, pendingSaves,
                 finalizeCalls, pushRun>>

\* lines 177-185: measuring, the finger was removed
FrameFingerLost(avgRed) ==
  /\ FrameTaken(avgRed)
  /\ detectionPhase = "measuring"
  /\ FingerLost(avgRed)
  /\ fingerDetected' = FALSE
  /\ detectionPhase' = "waiting"
  /\ progress' = 0
  /\ sinceProcess' = Elapsed
  /\ last' = [Note("lost") EXCEPT !.avgRed = avgRed]
  /\ UNCHANGED <<isMonitoring, currentBPM, isSaving, advancedMetrics, filter,
                 dataBuffer, validReadings, measurements, pendingSaves,
                 finalizeCalls, pushRun>>

\* line 188: filterRef.current.process(avgRed)
Filtered(avgRed) == FilterProcess(filter, avgRed)

\* variant: the change is compared whatever the length of the buffer
MotionDetectedAnyLength(avgRed) ==
  /\ dataBuffer # <<>>
  /\ Abs(FilterOutput(Filtered(avgRed)) - dataBuffer[Len(dataBuffer)])
       > MOTION_THRESHOLD * FP

\* lines 192-198: the buffer holds more than 5 values and the filtered value
\* moved by more than 10 from the last one
MotionDetected(avgRed) ==
  /\ Len(dataBuffer) > MOTION_MIN_LENGTH
  /\ Abs(FilterOutput(Filtered(avgRed)) - dataBuffer[Len(dataBuffer)])
       > MOTION_THRESHOLD * FP

\* lines 198-201: motion, drop the last 5 readings and skip the frame
FrameMotionRejected(avgRed) ==
  /\ FrameTaken(avgRed)
  /\ detectionPhase = "measuring"
  /\ ~FingerLost(avgRed)
  /\ MotionDetected(avgRed)
  /\ filter' = Filtered(avgRed)
  /\ dataBuffer' = SubSeq(dataBuffer, 1, Len(dataBuffer) - MOTION_DISCARD)
  /\ sinceProcess' = Elapsed
  /\ pushRun' = 0
  /\ last' = [Note("rejected") EXCEPT !.avgRed = avgRed,
                                      !.oldSamples = Min(last.oldSamples, Len(dataBuffer'))]
  /\ UNCHANGED <<isMonitoring, currentBPM, progress, fingerDetected, isSaving,
                 advancedMetrics, detectionPhase, validReadings, measurements,
                 pendingSaves, finalizeCalls>>

\* variant: push without the shift
PushedNoShift(buffer, filteredValue) == Append(buffer, filteredValue)

\* lines 205-211: push, then shift once the length exceeds WINDOW_SIZE
Pushed(buffer, filteredValue) ==
  LET b == Append(buffer, filteredValue)
  IN IF Len(b) > WINDOW_SIZE THEN Tail(b) ELSE b

\* variant: every sample on a full window is evaluated
EvaluationDueEveryTick(buffer) == Len(buffer) = WINDOW_SIZE

\* lines 222-225: the window is full and the last evaluation is more than
\* 500 ms ago
EvaluationDue(buffer) ==
  /\ Len(buffer) = WINDOW_SIZE
  /\ Elapsed > EVAL_INTERVAL_MS

\* lines 204-218, no evaluation on this frame
FramePushed(avgRed) ==
  /\ FrameTaken(avgRed)
  /\ detectionPhase = "measuring"
  /\ ~FingerLost(avgRed)
  /\ ~MotionDetected(avgRed)
  /\ LET buffer == Pushed(dataBuffer, FilterOutput(Filtered(avgRed)))
     IN /\ ~EvaluationDue(buffer)
        /\ dataBuffer' = buffer
        /\ progress' = Min(Len(buffer), WINDOW_SIZE)
  /\ filter' = Filtered(avgRed)
  /\ sinceProcess' = Elapsed
  /\ pushRun' = Min(pushRun + 1, WINDOW_SIZE)
  /\ last' = [Note("pushed") EXCEPT !.avgRed = avgRed, !.oldSamples = OldAfterPush]
  /\ UNCHANGED <<isMonitoring, currentBPM, fingerDetected, isSaving,
                 advancedMetrics, detectionPhase, validReadings, measurements,
                 pendingSaves, finalizeCalls>>

\* validReadingsRef.current.slice(-7)
LastReadings(readings) ==
  SubSeq(readings, Max(1, Len(readings) - SMOOTH_LAST + 1), Len(readings))

\* variant: no rounding, the smoothed value as it is
RoundBPMSkipped(smoothed) == smoothed

\* Math.round(smoothed), smoothed in 1/BPM_FP
RoundBPM(smoothed) == RoundDiv(smoothed, BPM_FP)

\* variant: the quality score is not looked at
QualityIgnored(quality) == quality >= 0

\* line 231: quality >= MIN_QUALITY_SCORE
QualityPasses(quality) == quality * MIN_QUALITY_DEN >= MIN_QUALITY_NUM

\* variant: no upper end of the band
ValidBPMAnyRate(estimatedBPM) == estimatedBPM >= MIN_VALID_BPM * BPM_FP

\* line 240: estimatedBPM >= MIN_VALID_BPM && estimatedBPM <= MAX_VALID_BPM
ValidBPM(estimatedBPM) ==
  /\ estimatedBPM >= MIN_VALID_BPM * BPM_FP
  /\ estimatedBPM <= MAX_VALID_BPM * BPM_FP

\* variant: one reading fewer is enough
EnoughReadingsEarly(readings) == Len(readings) >= MIN_READINGS - 1

\* line 289: validReadingsRef.current.length >= 12
EnoughReadings(readings) == Len(readings) >= MIN_READINGS

\* variant: finalizeMeasurement without its stopMonitoring()
FinalizeWithoutStop(finalBPM) ==
  /\ isSaving' = TRUE
  /\ measurements' = Append(measurements, finalBPM)
  /\ pendingSaves' = pendingSaves + 1
  /\ finalizeCalls' = finalizeCalls + 1
  /\ progress' = Min(Len(dataBuffer) + 1, WINDOW_SIZE)
  /\ UNCHANGED <<isMonitoring, fingerDetected, detectionPhase>>

\* finalizeMeasurement(finalBPM) up to its await (lines 372-377):
\* stopMonitoring(), setIsSaving(true), addMeasurement(finalBPM)
FinalizeMeasurement(finalBPM) ==
  /\ StopMonitoringUpdates
  /\ isSaving' = TRUE
  /\ measurements' = Append(measurements, finalBPM)
  /\ pendingSaves' = pendingSaves + 1
  /\ finalizeCalls' = finalizeCalls + 1

\* lines 204-295 with the evaluation of lines 226-294
FrameEvaluated(avgRed) ==
  /\ FrameTaken(avgRed)
  /\ detectionPhase = "measuring"
  /\ ~FingerLost(avgRed)
  /\ ~MotionDetected(avgRed)
  /\ filter' = Filtered(avgRed)
  /\ pushRun' = Min(pushRun + 1, WINDOW_SIZE)
  /\ LET buffer == Pushed(dataBuffer, FilterOutput(Filtered(avgRed)))
         quality == assessSignalQuality(buffer)
         estimatedBPM == estimateHeartRateAutocorrelation(buffer, SAMPLING_RATE)
         passed == QualityPasses(quality)
         valid == passed /\ ValidBPM(estimatedBPM)
         readings == Append(validReadings, estimatedBPM)
         smoothed == weightedMedian(LastReadings(readings))
         enough == EnoughReadings(readings)
         note == [Note("evaluated") EXCEPT !.avgRed = avgRed, !.quality = quality,
                                           !.oldSamples = OldAfterPush]
     IN /\ EvaluationDue(buffer)
        /\ dataBuffer' = buffer
        /\ sinceProcess' = 0
        /\ IF ~passed
           THEN \* line 231 fails: nothing else happens
                /\ progress' = Min(Len(buffer), WINDOW_SIZE)
                /\ last' = [note EXCEPT !.outcome = "lowQuality"]
                /\ UNCHANGED <<isMonitoring, currentBPM, fingerDetected, isSaving,
                               advancedMetrics, detectionPhase, validReadings,
                               measurements, pendingSaves, finalizeCalls>>
           ELSE IF ~valid
           THEN \* line 240 fails
                /\ progress' = Min(Len(buffer), WINDOW_SIZE)
                /\ last' = [note EXCEPT !.outcome = "implausible",
                                        !.estimate = estimatedBPM,
                                        !.skipped = TRUE]
                /\ UNCHANGED <<isMonitoring, currentBPM, fingerDetected, isSaving,
                               advancedMetrics, detectionPhase, validReadings,
                               measurements, pendingSaves, finalizeCalls>>
           ELSE IF ~enough
           THEN \* lines 242-285
                /\ progress' = Min(Len(buffer), WINDOW_SIZE)
                /\ validReadings' = readings
                /\ currentBPM' = <<RoundBPM(smoothed)>>
                /\ advancedMetrics' = "snapshot"
                /\ last' = [note EXCEPT !.outcome = "accepted",
                                        !.estimate = estimatedBPM,
                                        !.bpm = RoundBPM(smoothed)]
                /\ UNCHANGED <<isMonitoring, fingerDetected, isSaving,
                               detectionPhase, measurements, pendingSaves,
                               finalizeCalls>>
           ELSE \* lines 242-292: accepted, and enough readings to finish
                /\ validReadings' = readings
                /\ currentBPM' = <<RoundBPM(smoothed)>>
                /\ advancedMetrics' = "snapshot"
                /\ FinalizeMeasurement(RoundBPM(smoothed))
                /\ last' = [note EXCEPT !.outcome = "finalized",
                                        !.estimate = estimatedBPM,
                                        !.bpm = RoundBPM(smoothed)]

processFrameData ==
  LET avgRed == IF queue = <<>> THEN 0 ELSE Head(queue) IN
    \/ FrameFingerDetected(avgRed)
    \/ FrameNoFinger(avgRed)
    \/ FrameFingerLost(avgRed)
    \/ FrameMotionRejected(avgRed)
    \/ FramePushed(avgRed)
    \/ FrameEvaluated(avgRed)

\* finalizeMeasurement after its await (lines 378-390): addMeasurement has
\* resolved, setIsSaving(false) and the alert
finalizeMeasurementResumes ==
  /\ pendingSaves > 0
  /\ pendingSaves' = pendingSaves - 1
  /\ isSaving' = FALSE
  /\ UNCHANGED <<isMonitoring, currentBPM, progress, fingerDetected,
                 advancedMetrics, filter, dataBuffer, detectionPhase,
                 validReadings, sinceProcess, queue, measurements>>
  /\ UNCHANGED <<worldVars, obsVars, fnVars>>

\* ------------------------------------------------------------------------
\* The session specification
\* ------------------------------------------------------------------------
Next ==
  \/ PlaceFinger
  \/ LiftFinger
  \/ frameProcessor
  \/ startMonitoring
  \/ stopMonitoring
  \/ processFrameData
  \/ finalizeMeasurementResumes

Spec == Init /\ [][Next]_vars

\* ------------------------------------------------------------------------
\* Pure-function specifications
\* ------------------------------------------------------------------------
\* histories handed to weightedMedian: up to MaxHistory readings, each one
\* of BpmLevels
MaxHistory == 5
BpmLevels == {60, 70, 150}
Histories == UNION {[1..n -> BpmLevels] : n \in 0..MaxHistory}

InitSmoother ==
  /\ ProgInit
  /\ QuietInit
  /\ fnArg \in Histories
  /\ fnRes = <<>>

\* weightedMedian(fnArg)
ApplyWeightedMedian ==
  /\ fnRes = <<>>
  /\ fnRes' = <<weightedMedian(fnArg)>>
  /\ UNCHANGED <<progVars, worldVars, obsVars, fnArg>>

SpecSmoother == InitSmoother /\ [][ApplyWeightedMedian]_vars

\* windows handed to the estimator: square waves of every period up to
\* MaxPeriod frames, of amplitude 1..MaxAmp brightness units, half a window
\* or a whole window long
MaxPeriod == 60
MaxAmp == 2
Wave(period, amp, n) ==
  [i \in 1..n |-> IF ((i - 1) % period) * 2 < period THEN amp * FP ELSE 0 - amp * FP]
TestWindows ==
  {Wave(period, amp, n) : period \in 1..MaxPeriod, amp \in 1..MaxAmp,
                          n \in {WINDOW_SIZE \div 2, WINDOW_SIZE}}

\* one period of a 40 BPM pulse (45 frames at 30 Hz) carrying a second
\* harmonic of twice the fundamental's amplitude:
\* round(5 * (sin(2 pi t / 45) + 2 sin(4 pi t / 45))), t = 0..44
SecondHarmonic ==
  <<0, 3, 7, 9, 12, 13, 14, 13, 12, 11, 8, 6, 3, 0, -2, -4, -6, -7, -7, -6,
    -5, -3, -1, 1, 3, 5, 6, 7, 7, 6, 4, 2, 0, -3, -6, -8, -11, -12, -13, -14,
    -13, -12, -9, -7, -3>>
HarmonicWindows ==
  {[i \in 1..n |-> amp * SecondHarmonic[((i - 1) % Len(SecondHarmonic)) + 1]] :
     amp \in 1..MaxAmp, n \in {WINDOW_SIZE \div 2, WINDOW_SIZE}}

\* a short window of mean 0 whose only overlapping lags are 8 and 9: the
\* lag-8 sum is exactly one fifth of the variance (2 of 10)
Borderline == <<1, -2, -1, 0, 0, 0, 0, 0, 2, 0>>
\* and one whose largest lag sum (lag 9) is one eighth of the variance
Uncorrelated == <<1, -2, -1, 0, 0, 0, 0, 0, 1, 1>>
ThresholdWindows ==
  {[i \in 1..Len(w) |-> amp * w[i]] : w \in {Borderline, Uncorrelated}, amp \in 1..MaxAmp}

EstimatorInputs == TestWindows \cup HarmonicWindows \cup ThresholdWindows

InitEstimator ==
  /\ ProgInit
  /\ QuietInit
  /\ fnArg \in EstimatorInputs
  /\ fnRes = <<>>

\* estimateHeartRateAutocorrelation(fnArg, SAMPLING_RATE)
ApplyEstimator ==
  /\ fnRes = <<>>
  /\ fnRes' = <<estimateHeartRateAutocorrelation(fnArg, SAMPLING_RATE)>>
  /\ UNCHANGED <<progVars, worldVars, obsVars, fnArg>>

SpecEstimator == InitEstimator /\ [][ApplyEstimator]_vars

\* signals handed to the secondary metrics: a shape repeated up to a length,
\* scaled and lifted by an offset
MaxMetricLen == 24
MaxMetricAmp == 2
MetricShapes ==
  [constant    |-> <<0>>,
   alternating |-> <<-1, 1>>,
   square      |-> <<-1, -1, -1, -1, -1, -1, -1, -1, -1, -1,
                     1, 1, 1, 1, 1, 1, 1, 1, 1, 1>>,
   beats       |-> <<0, 1, 2, 1, 0, 0, 0, 0, 0, 0>>,
   brisk       |-> <<0, 1, 2, 1, 0, 0, 0, 0, 0>>,
   notch       |-> <<0, 2, 0, 3, 0, 0, 0, 0, 0, 0, 0, 0>>,
   breath      |-> <<0, 3, 0, 0, 0, 0, 0, 3, 0, 0, 0, 0,
                     0, 2, 0, 0, 0, 0, 0, 2, 0, 0, 0, 0>>]
MetricOffsets == {-5, 0, 5, 50}
MetricLengths == {0, 1, 2, 9, 10, 20, MaxMetricLen}
MetricSignal(shape, amp, offset, n) ==
  [i \in 1..n |-> offset + amp * shape[((i - 1) % Len(shape)) + 1]]
MetricInputs ==
  {MetricSignal(MetricShapes[s], amp, offset, n) :
     s \in DOMAIN MetricShapes, amp \in 1..MaxMetricAmp,
     offset \in MetricOffsets, n \in MetricLengths}

InitMetrics ==
  /\ ProgInit
  /\ QuietInit
  /\ fnArg \in MetricInputs
  /\ fnRes = <<>>

\* one of the metrics is computed for fnArg
Applied(fn, out) ==
  /\ fnRes = <<>>
  /\ fnRes' = <<[fn |-> fn, out |-> out]>>
  /\ UNCHANGED <<progVars, worldVars, obsVars, fnArg>>

ApplyIBI == Applied("calculateIBI", calculateIBI(fnArg, SAMPLING_RATE))
ApplyHRV == Applied("calculateHRV", calculateHRV(fnArg))
ApplyRespirationRate ==
  Applied("estimateRespirationRate", estimateRespirationRate(fnArg, SAMPLING_RATE))
ApplyPerfusionIndex ==
  Applied("calculatePerfusionIndex", calculatePerfusionIndex(fnArg))
ApplySNR == Applied("calculateSNR", calculateSNR(fnArg))
ApplySQI == Applied("calculateSQI", calculateSQI(fnArg))

NextMetrics ==
  \/ ApplyIBI
  \/ ApplyHRV
  \/ ApplyRespirationRate
  \/ ApplyPerfusionIndex
  \/ ApplySNR
  \/ ApplySQI

SpecMetrics == InitMetrics /\ [][NextMetrics]_vars

\* interval lists handed to calculateHRV: up to MaxIbis intervals, in ms, of a
\* steady beat (800), one 50 ms and one 200 ms longer, and a missed beat
MaxIbis == 6
IbiValues == {800, 850, 1000, 1600}
IbiLists == UNION {[1..n -> IbiValues] : n \in 0..MaxIbis}

InitHRV ==
  /\ ProgInit
  /\ QuietInit
  /\ fnArg \in IbiLists
  /\ fnRes = <<>>

SpecHRV == InitHRV /\ [][ApplyHRV]_vars

\* signals and sampling rates handed to estimateRespirationRate: beats whose
\* heights form an envelope that crosses its mean once ("slow") or twice
\* ("quick") in 15 samples, beats of one height and no beat at all
MaxBreathAmp == 2
BreathShapes ==
  [slow   |-> <<0, 3, 0, 3, 0, 1, 0, 1, 0, 0, 0, 0, 0, 0, 0>>,
   quick  |-> <<0, 3, 0, 1, 0, 1, 0, 3, 0, 0, 0, 0, 0, 0, 0>>,
   steady |-> <<0, 1>>,
   still  |-> <<0>>]
BreathLengths == {0, 7, 15, 24}
BreathRates == {0 - SAMPLING_RATE, 0, 1, 3, 10, SAMPLING_RATE}
BreathInputs ==
  {[signal |-> MetricSignal(BreathShapes[s], amp, offset, n), fs |-> fs] :
     s \in DOMAIN BreathShapes, amp \in 1..MaxBreathAmp, offset \in {0, 50},
     n \in BreathLengths, fs \in BreathRates}

InitRespiration ==
  /\ ProgInit
  /\ QuietInit
  /\ fnArg \in BreathInputs
  /\ fnRes = <<>>

\* estimateRespirationRate(fnArg.signal, fnArg.fs)
ApplyRespirationRateAt ==
  Applied("estimateRespirationRate",
          estimateRespirationRate(fnArg.signal, fnArg.fs))

SpecRespiration == InitRespiration /\ [][ApplyRespirationRateAt]_vars

\* windows handed to the quality assessment, in 1/FP of a brightness step: a
\* shape repeated up to a length, scaled and lifted by an offset
MaxQualityAmp == 2
QualityShapes ==
  [level  |-> <<0>>,
   ripple |-> <<-1, 1>>,
   swing  |-> <<-5, 5>>,
   spike  |-> <<9, -1, -1, -1, -1, -1, -1, -1, -1, -1>>,
   beat   |-> <<0, 7, 11, 11, 7, 0, -7, -11, -11, -7>>]
QualityOffsets == {-1000, 0, 3, 1000}
QualityLengths == {0, 5, 9, 10, 20}
QualityWindows ==
  {MetricSignal(QualityShapes[s], amp, offset, n) :
     s \in DOMAIN QualityShapes, amp \in 1..MaxQualityAmp,
     offset \in QualityOffsets, n \in QualityLengths}

InitQuality ==
  /\ ProgInit
  /\ QuietInit
  /\ fnArg \in QualityWindows
  /\ fnRes = <<>>

\* assessSignalQuality(fnArg)
ApplyQuality ==
  /\ fnRes = <<>>
  /\ fnRes' = <<assessSignalQuality(fnArg)>>
  /\ UNCHANGED <<progVars, worldVars, obsVars, fnArg>>

SpecQuality == InitQuality /\ [][ApplyQuality]_vars

\* the filter on its own: process and reset calls on one ButterworthFilter;
\* fnArg is a second filter, constructed anew at every reset and fed the same
\* inputs since, fnRes the journal of the calls
MaxFilterCalls == 5
FilterInputs == {0, AmbientRed, FingerRed, FingerRed + 11}

\* the histories of new ButterworthFilter(SAMPLING_RATE)
FilterNew ==
  LET f == ButterworthFilter(SAMPLING_RATE) IN [x |-> f.x, y |-> f.y]

InitFilter ==
  /\ ProgInit
  /\ QuietInit
  /\ fnArg = FilterNew
  /\ fnRes = [op |-> "new", calls |-> 0, resets |-> 0, before |-> 0,
              since |-> 0]

\* filter.process(input), the same call on the second filter
FilterProcessCall ==
  /\ fnRes.calls < MaxFilterCalls
  /\ \E input \in FilterInputs :
       /\ filter' = FilterProcess(filter, input)
       /\ fnArg' = FilterProcess(fnArg, input)
  /\ fnRes' = [fnRes EXCEPT !.op = "process", !.calls = @ + 1, !.since = @ + 1]
  /\ UNCHANGED <<isMonitoring, currentBPM, progress, fingerDetected, isSaving,
                 advancedMetrics, dataBuffer, detectionPhase, validReadings,
                 sinceProcess, queue, measurements, pendingSaves>>
  /\ UNCHANGED <<worldVars, obsVars>>

\* filter.reset(); the second filter is replaced by a new one. The journal
\* counts the resets made in a row and the inputs processed before them
FilterResetCall ==
  /\ fnRes.calls < MaxFilterCalls
  /\ filter' = FilterReset(filter)
  /\ fnArg' = FilterNew
  /\ fnRes' = [op |-> "reset", calls |-> fnRes.calls + 1,
               resets |-> IF fnRes.op = "reset" THEN fnRes.resets + 1 ELSE 1,
               before |-> IF fnRes.op = "reset" THEN fnRes.before
                          ELSE fnRes.since,
               since |-> 0]
  /\ UNCHANGED <<isMonitoring, currentBPM, progress, fingerDetected, isSaving,
                 advancedMetrics, dataBuffer, detectionPhase, validReadings,
                 sinceProcess, queue, measurements, pendingSaves>>
  /\ UNCHANGED <<worldVars, obsVars>>

NextFilter ==
  \/ FilterProcessCall
  \/ FilterResetCall

SpecFilter == InitFilter /\ [][NextFilter]_vars

\* construction: new ButterworthFilter(fnArg) for one of FilterRates, then
\* samples fed to what was constructed
MaxFedSamples == 3

InitConstruct ==
  /\ ProgInit
  /\ QuietInit
  /\ fnArg \in FilterRates
  /\ fnRes = <<>>

ConstructFilter ==
  /\ fnRes = <<>>
  /\ fnRes' = <<[object |-> ButterworthFilter(fnArg), fed |-> 0]>>
  /\ UNCHANGED <<progVars, worldVars, obsVars, fnArg>>

\* object.process(input); nothing is fed to a constructor that threw
FeedConstructed ==
  /\ fnRes # <<>>
  /\ ~fnRes[1].object.thrown
  /\ fnRes[1].fed < MaxFedSamples
  /\ \E input \in FilterInputs :
       fnRes' = <<[object |-> ProcessConstructed(fnRes[1].object, input),
                   fed |-> fnRes[1].fed + 1]>>
  /\ UNCHANGED <<progVars, worldVars, obsVars, fnArg>>

NextConstruct ==
  \/ ConstructFilter
  \/ FeedConstructed

SpecConstruct == InitConstruct /\ [][NextConstruct]_vars

\* ------------------------------------------------------------------------
\* Claims
\* ------------------------------------------------------------------------
\* the phase of the session: Idle while not monitoring, else the detection
\* phase
SessionPhase ==
  IF ~isMonitoring THEN "Idle"
  ELSE IF detectionPhase = "waiting" THEN "Waiting" ELSE "Measuring"

\* this step is one call of processFrameData: it takes the oldest pending sample
SampleTaken == queue # <<>> /\ queue' = Tail(queue)

\* C1: in Measuring the window never holds more than WINDOW_SIZE (180)
\* samples; after WINDOW_SIZE accepted pushes in a row with no rejection it
\* holds exactly WINDOW_SIZE; and once it is full an accepted push drops
\* exactly the oldest sample, keeps the others in order and appends the new
\* filtered value.
C1_WindowInvariant ==
  [][/\ Len(dataBuffer') <= WINDOW_SIZE
     /\ pushRun' >= WINDOW_SIZE => Len(dataBuffer') = WINDOW_SIZE
     /\ (/\ SampleTaken
         /\ last'.op \in {"pushed", "evaluated"}
         /\ Len(dataBuffer) = WINDOW_SIZE)
        => dataBuffer' = Append(Tail(dataBuffer), FilterOutput(filter'))]_vars

\* C1: the window is full after an unbroken run of pushes and evaluations
\* have gone on evicting from it
C1_Witness ==
  /\ Len(dataBuffer) = WINDOW_SIZE
  /\ pushRun = WINDOW_SIZE
  /\ last.op = "pushed"
  /\ Len(validReadings) >= 2

C3_FreshStart ==
  [][(~isMonitoring /\ isMonitoring')
     => (/\ SessionPhase' = "Waiting"
         /\ filter' = [x |-> <<0, 0, 0>>, y |-> <<0, 0, 0>>]
         /\ dataBuffer' = <<>>
         /\ validReadings' = <<>>)]_vars

\* C3: a second Start, right after a session that finalized with a full
\* window
C3_Witness ==
  /\ last.op = "start"
  /\ sessions = 2
  /\ measurements # <<>>
  /\ dataBuffer = <<>>
  /\ validReadings = <<>>

\* C4: a sample delivered to processFrameData while the session is Idle is
\* discarded: it changes neither the detection phase, the finger-detected
\* flag, the Window nor the Estimate History, and the session stays Idle.
C4_StaleSamplesDiscarded ==
  [][(SampleTaken /\ SessionPhase = "Idle")
     => (/\ SessionPhase' = "Idle"
         /\ detectionPhase' = detectionPhase
         /\ fingerDetected' = fingerDetected
         /\ dataBuffer' = dataBuffer
         /\ validReadings' = validReadings)]_vars

\* C5: the session finalizes exactly on the step at which the Estimate
\* History reaches MIN_READINGS (12) accepted estimates; that step stops the
\* monitoring and hands the result sink the rounded weighted median of the
\* last SMOOTH_LAST (7) estimates, which is also the BPM on display.
C5_CountBasedTermination ==
  [][/\ (measurements' # measurements)
        <=> (/\ Len(validReadings) = MIN_READINGS - 1
             /\ Len(validReadings') = MIN_READINGS)
     /\ (measurements' # measurements)
        => (/\ SessionPhase = "Measuring"
            /\ SessionPhase' = "Idle"
            /\ measurements' =
                 Append(measurements,
                        RoundBPM(weightedMedian(LastReadings(validReadings'))))
            /\ currentBPM' = <<measurements'[Len(measurements')]>>)]_vars

\* C5: a session has just finalized on its twelfth accepted estimate
C5_Witness ==
  /\ last.op = "evaluated"
  /\ last.outcome = "finalized"
  /\ Len(validReadings) = MIN_READINGS
  /\ Len(measurements) = 1
  /\ measurements[1] = last.bpm

C8_ResultSink ==
  [][/\ finalizeCalls' <= 1
     /\ (measurements' # measurements) <=> (finalizeCalls' = finalizeCalls + 1)
     /\ (measurements' # measurements)
        => (/\ Len(measurements') = Len(measurements) + 1
            /\ SubSeq(measurements', 1, Len(measurements)) = measurements)]_vars

\* C8: a sample was delivered and processed after the finalizing one
C8_Witness ==
  /\ finalizeCalls = 1
  /\ SessionPhase = "Idle"
  /\ Len(measurements) = 1
  /\ last.op \in {"detected", "nofinger"}

\* the ordinary median of the history with its i-th entry (0-based) taken
\* i + 1 times, by counting: the k-th smallest is the value v with fewer
\* than k entries below it and at least k entries not above it
WeightBelow(h, v) ==
  SumRange(LAMBDA i : IF h[i] < v THEN i ELSE 0, 1, Len(h))
WeightUpTo(h, v) ==
  SumRange(LAMBDA i : IF h[i] <= v THEN i ELSE 0, 1, Len(h))
KthSmallest(h, k) ==
  CHOOSE v \in {h[i] : i \in 1..Len(h)} :
    WeightBelow(h, v) < k /\ k <= WeightUpTo(h, v)
ReplicatedMedian(h) ==
  LET total == (Len(h) * (Len(h) + 1)) \div 2
  IN IF total % 2 = 1
     THEN KthSmallest(h, (total + 1) \div 2)
     ELSE (KthSmallest(h, total \div 2) + KthSmallest(h, total \div 2 + 1)) \div 2

\* C9: weightedMedian(h) is the ordinary median of the multiset that holds
\* the i-th entry (0-based) of h i + 1 times; it is 0 for the empty history
\* and 70 for [70, 70, 70, 70, 150].
C9_WeightedMedian ==
  fnRes # <<>>
  => /\ fnArg # <<>> => fnRes[1] = ReplicatedMedian(fnArg)
     /\ fnArg = <<>> => fnRes[1] = 0
     /\ fnArg = <<70, 70, 70, 70, 150>> => fnRes[1] = 70

\* C9: the literal history has been smoothed
C9_Witness ==
  /\ fnArg = <<70, 70, 70, 70, 150>>
  /\ fnRes = <<70>>

\* C10: the estimator returns no estimate (0) or a BPM within 30..220.
C10_SanityBand ==
  fnRes # <<>>
  => \/ fnRes[1] = 0
     \/ /\ fnRes[1] >= MIN_VALID_BPM * BPM_FP
        /\ fnRes[1] <= LAG_MAX_BPM * BPM_FP


\* ------------------------------------------------------------------------
\* C11. Quality gate: a window evaluation whose quality score (as
\* assessSignalQuality computes it on the window just evaluated) is below
\* MIN_QUALITY_SCORE leaves the estimate history, the smoothed BPM and the
\* advanced metrics as they were, and the session stays in Measuring.
\* ------------------------------------------------------------------------
WindowEvaluated ==
  /\ SampleTaken
  /\ detectionPhase = "measuring"
  /\ sinceProcess' = 0

C11_QualityGate ==
  [][ (/\ WindowEvaluated
       /\ assessSignalQuality(dataBuffer') * MIN_QUALITY_DEN < MIN_QUALITY_NUM)
      => /\ validReadings' = validReadings
         /\ currentBPM' = currentBPM
         /\ advancedMetrics' = advancedMetrics
         /\ SessionPhase' = "Measuring" ]_vars

\* a window of too low a quality was evaluated whose estimate lay in the
\* valid band, after an earlier estimate had been accepted
C11_Witness ==
  /\ last.op = "evaluated"
  /\ last.outcome = "lowQuality"
  /\ validReadings # <<>>
  /\ ValidBPM(estimateHeartRateAutocorrelation(dataBuffer, SAMPLING_RATE))
\* ------------------------------------------------------------------------
\* C12. Secondary metrics are total: every metric returns finite numbers;
\* on an empty, single-sample or constant input it returns its neutral
\* value (no interval, the all-zero bundle, 0); on a signal of mean zero the
\* perfusion index is 0 and the quality index keeps only its SNR share, at
\* most a third of the scale.
\* ------------------------------------------------------------------------
\* empty, a single sample, or the same value throughout
Degenerate(input) == \A i \in 1..Len(input) : input[i] = input[1]

ZeroMean(input) == SumRange(LAMBDA i : input[i], 1, Len(input)) = 0

FiniteResult(fn, out) ==
  IF fn = "calculateIBI" THEN \A i \in 1..Len(out) : out[i] \in Int
  ELSE IF fn = "calculateHRV"
  THEN out.sdnn.finite /\ out.rmssd.finite /\ out.pnn50.finite
         /\ out.lfHfRatio.finite
  ELSE out.finite

NeutralResult(fn, out) ==
  IF fn = "calculateIBI" THEN out = <<>>
  ELSE IF fn = "calculateHRV"
  THEN out = [sdnn |-> Num(0), rmssd |-> Num(0), pnn50 |-> Num(0),
              lfHfRatio |-> Num(0)]
  ELSE out = Num(0)

MeanIsDivisor(fn) == fn \in {"calculatePerfusionIndex", "calculateSQI"}

\* C12 as stated: the neutral value also for the quality index of a signal
\* of mean zero
C12_Original ==
  fnRes # <<>> =>
    LET fn == fnRes[1].fn
        out == fnRes[1].out
    IN /\ FiniteResult(fn, out)
       /\ (Degenerate(fnArg) \/ (MeanIsDivisor(fn) /\ ZeroMean(fnArg)))
            => NeutralResult(fn, out)

C12_MetricsTotal ==
  fnRes # <<>> =>
    LET fn == fnRes[1].fn
        out == fnRes[1].out
    IN /\ FiniteResult(fn, out)
       /\ Degenerate(fnArg) => NeutralResult(fn, out)
       /\ (fn = "calculatePerfusionIndex" /\ ZeroMean(fnArg))
            => NeutralResult(fn, out)
       /\ (fn = "calculateSQI" /\ ZeroMean(fnArg))
            => out.v >= 0 /\ 3 * out.v <= 100 * MILLI

\* the quality index of a signal of mean zero that is not constant came out
\* above 0
C12_Witness ==
  /\ fnRes # <<>>
  /\ fnRes[1].fn = "calculateSQI"
  /\ ZeroMean(fnArg)
  /\ ~Degenerate(fnArg)
  /\ fnRes[1].out.finite
  /\ fnRes[1].out.v > 0
\* ------------------------------------------------------------------------
\* C13. Filter reset: a reset leaves the histories of a newly constructed
\* filter, a second reset right after it changes nothing, and from then on
\* the filter holds what a new filter fed the same inputs holds, so it
\* returns the same outputs.
\* ------------------------------------------------------------------------
C13_FilterReset ==
  [][ /\ fnRes'.op = "reset" =>
           /\ filter' = FilterNew
           /\ fnRes.op = "reset" => filter' = filter
      /\ filter' = fnArg'
      /\ FilterOutput(filter') = FilterOutput(fnArg') ]_vars

\* inputs were processed, reset was called twice in a row, and an input
\* processed since gave an output other than 0
C13_Witness ==
  /\ fnRes.op = "process"
  /\ fnRes.resets >= 2
  /\ fnRes.before > 0
  /\ fnRes.since > 0
  /\ FilterOutput(filter) # 0

\* ------------------------------------------------------------------------
\* C14. Malformed configuration: the construction of a filter with a
\* sampling rate <= 0 fails with an error, so no such filter exists and none
\* is fed a sample.
\* ------------------------------------------------------------------------
C14_MalformedConfiguration ==
  (fnRes # <<>> /\ fnArg <= 0) =>
     /\ fnRes[1].object.thrown
     /\ fnRes[1].fed = 0
\* ------------------------------------------------------------------------
\* C15. Motion-artifact rejection: a sample processed in the measuring
\* phase while the window holds more than 5 values, whose filtered value
\* differs from the last window value by more than 10, is not appended: the
\* last 5 values are removed and the progress is left as it was. Every
\* other sample processed in the measuring phase (a change of at most 10, or
\* a window of at most 5 values) is appended.
\* ------------------------------------------------------------------------
\* a sample is processed in the measuring phase and is not a contact loss
MeasuredSample ==
  /\ SampleTaken
  /\ detectionPhase = "measuring"
  /\ Head(queue) >= FINGER_LOST_THRESHOLD

\* the value the filter returned for the sample of this step moved by more
\* than the threshold from the last value of the window
MovedTooFar ==
  /\ dataBuffer # <<>>
  /\ Abs(FilterOutput(filter') - dataBuffer[Len(dataBuffer)])
       > MOTION_THRESHOLD * FP

\* the window after the step is the window before it less its last 5 values
LastFiveRemoved ==
  dataBuffer' = SubSeq(dataBuffer, 1, Len(dataBuffer) - MOTION_DISCARD)

\* the window after the step ends with the filtered value of the step, after
\* the values it held (less the oldest one if it was full)
ValueAppended ==
  dataBuffer' = Append(IF Len(dataBuffer) < WINDOW_SIZE THEN dataBuffer
                       ELSE Tail(dataBuffer),
                       FilterOutput(filter'))

\* C15 as stated: rejection whatever the length of the window
C15_Original ==
  [][ MeasuredSample =>
        IF MovedTooFar
        THEN LastFiveRemoved /\ progress' = progress
        ELSE ValueAppended ]_vars

C15_MotionRejection ==
  [][ MeasuredSample =>
        IF MovedTooFar /\ Len(dataBuffer) > MOTION_MIN_LENGTH
        THEN /\ LastFiveRemoved
             /\ progress' = progress
             /\ validReadings' = validReadings
        ELSE ValueAppended ]_vars

\* a sample was rejected for motion and the window lost its last 5 values;
\* the progress still shows the length before the rejection
C15_Witness ==
  /\ last.op = "rejected"
  /\ detectionPhase = "measuring"
  /\ progress = Len(dataBuffer) + MOTION_DISCARD
\* ------------------------------------------------------------------------
\* C16. Rate-limited evaluation: a window is evaluated only on a sample
\* after whose push the window holds WINDOW_SIZE values, and only if more
\* than 500 ms have passed since the evaluation before it; a window that is
\* not full is never evaluated.
\* ------------------------------------------------------------------------
\* what an evaluation leaves behind: the time of the last evaluation is
\* renewed, or one of its results is written
EvaluationSeen ==
  \/ sinceProcess' = 0
  \/ validReadings' # validReadings
  \/ currentBPM' # currentBPM
  \/ advancedMetrics' # advancedMetrics
  \/ measurements' # measurements

SearchedLags ==
  ((SAMPLING_RATE * 60) \div LAG_MAX_BPM)..((SAMPLING_RATE * 60) \div LAG_MIN_BPM)

Correlations(input) ==
  LET deviations == Centered(input) @@ <<>>
  IN [lag \in 0..((SAMPLING_RATE * 60) \div LAG_MIN_BPM) |-> LagSum(deviations, lag)] @@ <<>>

StrongestLag(r) ==
  CHOOSE l \in SearchedLags :
    \A l2 \in SearchedLags : r[l] > r[l2] \/ (r[l] = r[l2] /\ l <= l2)

HalfOf(lag) == (lag + 1) \div 2

\* the half-lag correlation is more than 60% of the best lag's
HalfLagStrong(r) ==
  r[HalfOf(StrongestLag(r))] * HARMONIC_DEN > r[StrongestLag(r)] * HARMONIC_NUM

\* 40 BPM at the sampling rate: lag 45
FundamentalLag == (SAMPLING_RATE * 60) \div LAG_MIN_BPM

\* 80 BPM is lag 22.5; the estimator returns 60 * fs / lag for a whole lag,
\* so the rates that stand for 80 BPM are those of lags 22 and 23
DoubledRates ==
  {LagToBPM(FundamentalLag \div 2, SAMPLING_RATE),
   LagToBPM(FundamentalLag \div 2 + 1, SAMPLING_RATE)}

\* ------------------------------------------------------------------------
\* C17. Harmonic test scenario: for a window whose strongest lag is the 40 BPM
\* lag (45 frames at 30 Hz) and whose half-lag correlation exceeds 60% of the
\* strongest one, the estimate is not the doubled rate (80 BPM, i.e. the rate
\* of lag 22 or 23).
\* ------------------------------------------------------------------------
C17_HarmonicScenario ==
  fnRes # <<>>
  => LET r == Correlations(fnArg)
     IN (/\ r[0] > 0
         /\ StrongestLag(r) = FundamentalLag
         /\ HalfLagStrong(r))
        => fnRes[1] \notin DoubledRates


ChosenLag(r) ==
  IF HalfOf(StrongestLag(r)) \in SearchedLags /\ HalfLagStrong(r)
  THEN HalfOf(StrongestLag(r))
  ELSE StrongestLag(r)

\* 60 / (lag / fs) for a lag in 1/MILLI of a frame
FractionalLagToBPM(lagMilli, fs) == (60 * fs * BPM_FP * MILLI) \div lagMilli

\* ------------------------------------------------------------------------
\* C19. Sub-sample refinement: a returned BPM is that of the fractional lag
\* lag + 0.5 * (y1 - y3) / (y1 - 2 * y2 + y3), y1, y2, y3 being the
\* correlations at lag - 1, lag and lag + 1 of the chosen lag, not that of
\* the whole lag.
\* ------------------------------------------------------------------------
C19_SubSampleRefinement ==
  (fnRes # <<>> /\ fnRes[1] # 0)
  => LET r == Correlations(fnArg)
     IN fnRes[1] = FractionalLagToBPM(refinePeak(r, ChosenLag(r)), SAMPLING_RATE)


\* the rates of the lags the search may use
SearchedRates == {LagToBPM(l, SAMPLING_RATE) : l \in SearchedLags}

\* ------------------------------------------------------------------------
\* C20 as stated. Confidence threshold: the estimate is 0 whenever the
\* largest normalized correlation over the lag range does not exceed 0.2 and
\* whenever the variance is zero; a BPM is returned only when the largest
\* correlation exceeds 0.2, and it is the rate of a lag of the range.
\* ------------------------------------------------------------------------
C20_Original ==
  fnRes # <<>>
  => LET r == Correlations(fnArg)
         top == r[StrongestLag(r)]
     IN /\ r[0] = 0 => fnRes[1] = 0
        /\ top * CONF_DEN <= r[0] => fnRes[1] = 0
        /\ fnRes[1] # 0 => /\ top * CONF_DEN > r[0]
                           /\ fnRes[1] \in SearchedRates

\* ------------------------------------------------------------------------
\* C20. Confidence threshold: the estimate is 0 whenever the largest
\* normalized correlation over the lag range is below 0.2 and whenever the
\* variance is zero; otherwise (largest correlation 0.2 or more) it is the
\* rate of a lag of the range [floor(fs * 60 / 220), floor(fs * 60 / 40)].
\* ------------------------------------------------------------------------
C20_ConfidenceThreshold ==
  fnRes # <<>>
  => LET r == Correlations(fnArg)
         top == r[StrongestLag(r)]
     IN IF r[0] = 0 \/ top * CONF_DEN < r[0]
        THEN fnRes[1] = 0
        ELSE fnRes[1] \in SearchedRates

\* C20: a window of positive variance whose largest correlation is below 0.2
\* has been rejected
C20_Witness ==
  /\ fnRes = <<0>>
  /\ LET r == Correlations(fnArg)
     IN /\ r[0] > 0
        /\ r[StrongestLag(r)] > 0
        /\ r[StrongestLag(r)] * CONF_DEN < r[0]

\* a window whose largest correlation is exactly 0.2 has been given an
\* estimate
BorderlineAccepted ==
  /\ fnRes # <<>>
  /\ LET r == Correlations(fnArg)
     IN /\ r[0] > 0
        /\ r[StrongestLag(r)] * CONF_DEN = r[0]
  /\ fnRes[1] \in SearchedRates


\* ------------------------------------------------------------------------
\* C21. Implausible estimate: a window evaluation whose estimate (as the
\* estimator computes it on the window just evaluated) is 0 or outside
\* MIN_VALID_BPM..MAX_VALID_BPM appends nothing to the estimate history and
\* leaves the smoothed BPM, the metrics and the phase (Measuring) as they
\* were; nothing is handed to the result sink.
\* ------------------------------------------------------------------------
C21_ImplausibleEstimate ==
  [][ (/\ WindowEvaluated
       /\ LET e == estimateHeartRateAutocorrelation(dataBuffer', SAMPLING_RATE)
          IN e < MIN_VALID_BPM * BPM_FP \/ e > MAX_VALID_BPM * BPM_FP)
      => /\ validReadings' = validReadings
         /\ currentBPM' = currentBPM
         /\ advancedMetrics' = advancedMetrics
         /\ measurements' = measurements
         /\ SessionPhase' = "Measuring" ]_vars

\* C21: skip and retry: an estimate has been accepted by an evaluation that
\* came after one that found its estimate implausible, with no detection or
\* Start in between
C21_Witness ==
  /\ last.op = "evaluated"
  /\ last.outcome = "accepted"
  /\ last.skipped
  /\ validReadings # <<>>


\* ------------------------------------------------------------------------
\* C22. Quality-gate scenario: the estimate history is empty at Start, and it
\* grows, and the session finalizes, only on a window evaluation whose
\* quality score passes the gate; so in a session whose evaluations all fail
\* the gate the history stays empty and the session never finalizes.
\* ------------------------------------------------------------------------
GatePassed ==
  /\ WindowEvaluated
  /\ assessSignalQuality(dataBuffer') * MIN_QUALITY_DEN >= MIN_QUALITY_NUM

C22_QualityGateScenario ==
  [][ /\ sessions' # sessions => validReadings' = <<>>
      /\ (validReadings' # validReadings /\ validReadings' # <<>>) => GatePassed
      /\ measurements' # measurements => GatePassed
      /\ finalizeCalls' > finalizeCalls => GatePassed ]_vars

\* C22: the evaluations on the settled faint signal have kept failing the
\* gate on a window that was full throughout: the history has not grown and
\* the session has not finalized
C22_Witness ==
  /\ last.op = "evaluated"
  /\ last.outcome = "lowQuality"
  /\ pushRun = WINDOW_SIZE
  /\ Len(validReadings) <= 1
  /\ finalizeCalls = 0
  /\ SessionPhase = "Measuring"


\* ------------------------------------------------------------------------
\* The three heuristics of the quality assessment on a window w of 1/FP
\* steps, from their definitions. mean and variance are the window's mean
\* and its mean squared deviation (whole numbers, rounded down); the AC
\* component is the square root of the variance, the DC component |mean|.
\* ------------------------------------------------------------------------
WindowMean(w) == SumRange(LAMBDA i : w[i], 1, Len(w)) \div Len(w)
WindowMoment(w, k) ==
  SumRange(LAMBDA i : (w[i] - WindowMean(w)) ^ k, 1, Len(w))
WindowVariance(w) == WindowMoment(w, 2) \div Len(w)

\* 0.001 < AC / DC < 1, squared: DC^2 / 10^6 < variance < DC^2
RatioPasses(w) ==
  LET dc == Abs(WindowMean(w))
  IN /\ dc > 0
     /\ WindowVariance(w) >= ((dc \div 1000) + 1) ^ 2
     /\ WindowVariance(w) < dc ^ 2

\* |third moment / n| / stdDev^3 > 0.2
SkewnessPasses(w) ==
  LET stdDev == Sqrt(WindowVariance(w))
  IN /\ stdDev > 0
     /\ 5 * (Abs(WindowMoment(w, 3)) \div Len(w)) > stdDev ^ 3

\* max - min > 1
SpanPasses(w) == \E i, j \in 1..Len(w) : w[i] - w[j] > FP

\* ------------------------------------------------------------------------
\* C23. Quality assessor: a window shorter than 10 samples is given 0; a
\* window of 10 samples or more is given 1 if at least one of the three
\* heuristics passes (AC/DC ratio strictly between 0.001 and 1, absolute
\* skewness above 0.2, peak-to-peak span above 1) and 0 if all three fail.
\* ------------------------------------------------------------------------
C23_QualityAssessor ==
  fnRes # <<>>
  => fnRes[1] = IF Len(fnArg) < 10 THEN 0
                ELSE IF RatioPasses(fnArg) \/ SkewnessPasses(fnArg) \/ SpanPasses(fnArg)
                     THEN 1 ELSE 0

\* C23: a window has passed on its skewness alone
C23_Witness ==
  /\ fnRes = <<1>>
  /\ Len(fnArg) >= 10
  /\ SkewnessPasses(fnArg)
  /\ ~RatioPasses(fnArg)
  /\ ~SpanPasses(fnArg)

\* the other cases: passed on the ratio alone, on the span alone, failed on
\* all three, and failed for its length although its span is large
OnlyRatioPassed ==
  fnRes = <<1>> /\ RatioPasses(fnArg) /\ ~SkewnessPasses(fnArg) /\ ~SpanPasses(fnArg)
OnlySpanPassed ==
  fnRes = <<1>> /\ SpanPasses(fnArg) /\ ~SkewnessPasses(fnArg) /\ ~RatioPasses(fnArg)
AllThreeFailed ==
  /\ fnRes = <<0>>
  /\ Len(fnArg) >= 10
  /\ \E i, j \in 1..Len(fnArg) : fnArg[i] # fnArg[j]
TooShort ==
  fnRes = <<0>> /\ Len(fnArg) \in 1..9 /\ SpanPasses(fnArg)


\* ------------------------------------------------------------------------
\* C24. Estimate history discipline: a step leaves the history as it is,
\* or empties it as a reset (Start, or the detection of the finger), or
\* appends at its end the estimate of the window just evaluated, which lies
\* in the valid band; and the history never holds more than MIN_READINGS (12)
\* entries.
\* ------------------------------------------------------------------------
HistoryReset ==
  \/ sessions' # sessions
  \/ SampleTaken /\ detectionPhase = "waiting" /\ detectionPhase' = "measuring"

HistoryAppended ==
  /\ WindowEvaluated
  /\ LET e == estimateHeartRateAutocorrelation(dataBuffer', SAMPLING_RATE)
     IN /\ e >= MIN_VALID_BPM * BPM_FP
        /\ e <= MAX_VALID_BPM * BPM_FP
        /\ validReadings' = Append(validReadings, e)

C24_HistoryDiscipline ==
  [][ /\ \/ validReadings' = validReadings
         \/ validReadings' = <<>> /\ HistoryReset
         \/ HistoryAppended
      /\ Len(validReadings') <= MIN_READINGS ]_vars

\* C24: after a contact loss and the re-detection that emptied it, the
\* history has grown again by appending
C24_Witness ==
  /\ lifts > 0
  /\ last.op = "evaluated"
  /\ last.outcome = "accepted"
  /\ Len(validReadings) >= 2
  /\ validReadings[Len(validReadings)] = last.estimate


\* ------------------------------------------------------------------------
\* C25. Peak and interval extraction: any two consecutive retained peaks of
\* calculateIBI are more than floor(0.25 * fs) samples apart, every retained
\* peak is a strict local maximum of the smoothed signal above the mid-range
\* threshold min + 0.5 * (max - min), and every returned interval lies
\* strictly between 300 ms and 2000 ms.
\* ------------------------------------------------------------------------
RetainedPeaks(input, fs) ==
  LET smooth == Smooth(input)
      n == Len(smooth)
  IN IF n < 3 THEN <<>>
     ELSE PeaksFrom(smooth, MinOf(smooth, 1, n), MaxOf(smooth, 1, n), fs \div 4, 2,
                    [peaks |-> <<>>, last |-> 1 - (fs \div 4)])

\* position p of the smoothed signal sm is above its mid-range
AboveMidRange(sm, p) ==
  \E lo, hi \in DOMAIN sm :
    /\ \A m \in DOMAIN sm : sm[lo] <= sm[m] /\ sm[m] <= sm[hi]
    /\ 2 * sm[p] > sm[lo] + sm[hi]

StrictLocalMaximum(sm, p) ==
  /\ p > 1
  /\ p < Len(sm)
  /\ sm[p] > sm[p - 1]
  /\ sm[p] > sm[p + 1]

BoundaryIntervalDropped ==
  /\ fnRes # <<>>
  /\ fnRes[1].fn = "calculateIBI"
  /\ fnRes[1].out = <<>>
  /\ LET peaks == RetainedPeaks(fnArg, SAMPLING_RATE)
     IN \E k \in 2..Len(peaks) : (peaks[k] - peaks[k - 1]) * 1000 = 300 * SAMPLING_RATE


\* ------------------------------------------------------------------------
\* C26. HRV outlier rejection: the statistics of calculateHRV are those of
\* the intervals that lie within 20% of the median interval
\* (|t - median| < 0.2 * median), in their original order; with fewer than 5
\* of them sdnn = rmssd = pnn50 = lfHfRatio = 0, and otherwise pnn50 is the
\* percentage (0..100) of the successive differences among them whose
\* magnitude exceeds 50 ms.
\* ------------------------------------------------------------------------
RetainedIntervals(ibis) ==
  SelectSeq(ibis, LAMBDA t : 5 * Abs(t - median(ibis)) < median(ibis))

\* the successive differences of a list
Differences(kept) == [i \in 1..(Len(kept) - 1) |-> kept[i + 1] - kept[i]]

\* sample standard deviation and root mean square of the successive
\* differences, in 1/FP ms (rounded down)
SampleDeviation(kept) ==
  LET n == Len(kept)
      total == SumRange(LAMBDA i : kept[i], 1, n)
  IN Sqrt((SumRange(LAMBDA i : (n * kept[i] - total) ^ 2, 1, n) * FP * FP)
            \div (n * n * (n - 1)))
SuccessiveRms(kept) ==
  LET d == Differences(kept)
  IN Sqrt((SumRange(LAMBDA i : d[i] ^ 2, 1, Len(d)) * FP * FP) \div Len(d))

\* the share of the differences above 50 ms, in 1/FP percent
ShareAbove50(kept) ==
  LET d == Differences(kept)
  IN (Cardinality({i \in DOMAIN d : d[i] > 50 \/ d[i] < -50}) * 100 * FP) \div Len(d)

C26_OutlierRejection ==
  (fnRes # <<>> /\ fnRes[1].fn = "calculateHRV")
  => LET kept == RetainedIntervals(fnArg)
         out == fnRes[1].out
     IN IF Len(kept) < 5
        THEN out = [sdnn |-> Num(0), rmssd |-> Num(0), pnn50 |-> Num(0),
                    lfHfRatio |-> Num(0)]
        ELSE /\ out.pnn50 = Num(ShareAbove50(kept))
             /\ out.pnn50.v >= 0
             /\ out.pnn50.v <= 100 * FP
             /\ out.sdnn = Num(SampleDeviation(kept))
             /\ out.rmssd = Num(SuccessiveRms(kept))

\* C26: statistics were computed after an outlier had been dropped, and some
\* but not all of the differences of the retained intervals exceed 50 ms
C26_Witness ==
  /\ fnRes # <<>>
  /\ fnRes[1].fn = "calculateHRV"
  /\ Len(RetainedIntervals(fnArg)) >= 5
  /\ Len(RetainedIntervals(fnArg)) < Len(fnArg)
  /\ fnRes[1].out.pnn50.v > 0
  /\ fnRes[1].out.pnn50.v < 100 * FP

\* an outlier left fewer than 5 intervals of 5 or more, and the bundle is 0
TooFewRetained ==
  /\ fnRes # <<>>
  /\ fnRes[1].fn = "calculateHRV"
  /\ Len(fnArg) >= 5
  /\ Len(RetainedIntervals(fnArg)) < 5
  /\ fnRes[1].out.sdnn = Num(0)


\* ------------------------------------------------------------------------
\* The envelope of a signal: the values at its local maxima (a fall that
\* follows a rise, with equal values in between at most), in order; and the
\* number of times the envelope crosses its mean.
\* ------------------------------------------------------------------------
EnvelopePositions(input) ==
  {i \in 1..(Len(input) - 1) :
     /\ input[i] > input[i + 1]
     /\ \E j \in 1..(i - 1) : /\ input[j] < input[j + 1]
                              /\ \A k \in (j + 1)..(i - 1) : input[k] = input[k + 1]}

EnvelopeCrossings(input) ==
  LET at == EnvelopePositions(input)
      m == Cardinality(at)
      total == SumRange(LAMBDA i : IF i \in at THEN input[i] ELSE 0, 1, Len(input))
      \* the successor of a position among the local maxima
      next(i) == CHOOSE j \in at : j > i /\ \A k \in at : k > i => j <= k
      side(i) == IF m * input[i] > total THEN 1
                 ELSE IF m * input[i] < total THEN -1 ELSE 0
  IN Cardinality({i \in at : /\ \E j \in at : j > i
                             /\ side(i) # 0
                             /\ side(next(i)) # side(i)})

LowerEndReturned ==
  /\ fnRes # <<>>
  /\ fnRes[1].out = Num(6 * MILLI)
RateAboveBand ==
  /\ fnRes # <<>>
  /\ fnRes[1].out = Num(0)
  /\ Cardinality(EnvelopePositions(fnArg.signal)) >= 4
  /\ EnvelopeCrossings(fnArg.signal) * fnArg.fs * 30 > 40 * Len(fnArg.signal)
RateBelowBand ==
  /\ fnRes # <<>>
  /\ fnRes[1].out = Num(0)
  /\ Cardinality(EnvelopePositions(fnArg.signal)) >= 4
  /\ fnArg.fs > 0
  /\ EnvelopeCrossings(fnArg.signal) > 0
  /\ EnvelopeCrossings(fnArg.signal) * fnArg.fs * 30 < 6 * Len(fnArg.signal)
TooFewPeaks ==
  /\ fnRes # <<>>
  /\ fnRes[1].out = Num(0)
  /\ Cardinality(EnvelopePositions(fnArg.signal)) = 3
  /\ EnvelopeCrossings(fnArg.signal) > 0
  /\ fnArg.fs > 0


\* ------------------------------------------------------------------------
\* C28. Reported BPM stays in band: every entry of the estimate history lies
\* within MIN_VALID_BPM..MAX_VALID_BPM (30..200), the BPM on display is null
\* or a whole number within 30..200, and so is every BPM handed to
\* addMeasurement.
\* ------------------------------------------------------------------------
WholeBPMs == MIN_VALID_BPM..MAX_VALID_BPM

C28_ReportedBPMInBand ==
  /\ \A i \in 1..Len(validReadings) :
       /\ validReadings[i] >= MIN_VALID_BPM * BPM_FP
       /\ validReadings[i] <= MAX_VALID_BPM * BPM_FP
  /\ currentBPM = <<>> \/ currentBPM[1] \in WholeBPMs
  /\ \A i \in 1..Len(measurements) : measurements[i] \in WholeBPMs

\* C28: a session has finalized and a second one shows a BPM of its own
C28_Witness ==
  /\ Len(measurements) = 1
  /\ measurements[1] \in WholeBPMs
  /\ sessions = 2
  /\ validReadings # <<>>
  /\ currentBPM # <<>>
  /\ currentBPM[1] \in WholeBPMs


\* ------------------------------------------------------------------------
\* C29. The window belongs to one contact episode: a Start and a detection of
\* the finger leave an empty window, an empty estimate history and a reset
\* filter; every sample taken in the measuring phase with the finger in
\* place goes through that one filter; at every window evaluation no sample
\* of the window was pushed before the latest Start or detection; and at a
\* finalization no entry of the estimate history was accepted before it.
\* ------------------------------------------------------------------------
C29_OneContactEpisode ==
  [][ /\ HistoryReset => /\ dataBuffer' = <<>>
                         /\ validReadings' = <<>>
                         /\ filter' = FilterZero
      /\ (/\ SampleTaken
          /\ detectionPhase = "measuring"
          /\ Head(queue) >= FINGER_LOST_THRESHOLD)
         => filter' = FilterProcess(filter, Head(queue))
      /\ WindowEvaluated => last'.oldSamples = 0
      /\ measurements' # measurements => last'.oldReadings = 0 ]_vars

\* C29: a session has finalized on a contact episode that began after the
\* finger had left the lens, on a window and a history of that episode only
C29_Witness ==
  /\ lifts > 0
  /\ last.op = "evaluated"
  /\ last.outcome = "finalized"
  /\ last.oldSamples = 0
  /\ last.oldReadings = 0
  /\ Len(dataBuffer) = WINDOW_SIZE


\* ------------------------------------------------------------------------
\* C30. A single trailing outlier is suppressed: for a history of 4 entries
\* or more whose entries before the last all equal v, weightedMedian returns
\* v whatever the last entry is. For 2 and 3 entries it does not: of 2
\* entries it returns the last one, of 3 the mean of v and the last one.
\* ------------------------------------------------------------------------
SteadyBeforeLast(h) == \A i \in 1..(Len(h) - 1) : h[i] = h[1]

C30_TrailingOutlier ==
  (fnRes # <<>> /\ Len(fnArg) >= 2 /\ SteadyBeforeLast(fnArg))
  => LET n == Len(fnArg)
     IN /\ n >= 4 => fnRes[1] = fnArg[1]
        /\ n = 3 => 2 * fnRes[1] = fnArg[1] + fnArg[n]
        /\ n = 2 => fnRes[1] = fnArg[n]

\* C30: outliers above and below v were suppressed at the end of a history
\* of MaxHistory entries
C30_Witness ==
  /\ fnRes # <<>>
  /\ Len(fnArg) = MaxHistory
  /\ SteadyBeforeLast(fnArg)
  /\ fnArg[Len(fnArg)] > fnArg[1]
  /\ fnRes[1] = fnArg[1]

\* the outlier got through a history of 2 and of 3 entries, and an outlier
\* below v was suppressed in a history of 4
OutlierReturned ==
  /\ fnRes # <<>>
  /\ Len(fnArg) = 2
  /\ fnArg[2] # fnArg[1]
  /\ fnRes[1] = fnArg[2]
OutlierAveraged ==
  /\ fnRes # <<>>
  /\ Len(fnArg) = 3
  /\ SteadyBeforeLast(fnArg)
  /\ fnArg[3] # fnArg[1]
  /\ fnRes[1] # fnArg[1]
LowOutlierSuppressed ==
  /\ fnRes # <<>>
  /\ Len(fnArg) = 4
  /\ SteadyBeforeLast(fnArg)
  /\ fnArg[4] < fnArg[1]
  /\ fnRes[1] = fnArg[1]


====
